---- MODULE Spec2Model ----
(***************************************************************************)
(* Model of the free-roam state (app/engine/roam_state.py), the event      *)
(* editor's text <-> command handling (app/editor/event_editor/            *)
(* event_properties.py) and the query engine (app/engine/query_engine.py). *)
(*                                                                         *)
(* Positions are fixed-point integers: one tile is Scale units, so that    *)
(* the accelerations 0.008 and 0.01 of take_input are the integers 4 and 5.*)
(***************************************************************************)
EXTENDS Integers, Sequences, FiniteSets, TLC

VARIABLES
    \* FreeRoamState fields (roam_state.py:16-27)
    roam_unit, last_move, speed, vspeed, hspeed, direction, ai_targets,
    \* game state the roam state reads and writes
    unit_pos, board, terrain, roam_speed, level_roam, level_roam_unit,
    regions, talk, state_stack, pc,
    \* bookkeeping of the run: ticks taken, whether a handler raised, and what
    \* the last handler observed
    ticks, raised, obs,
    \* the event editor: current.commands, the text box's blocks and what the
    \* last editor handler observed (event_properties.py)
    commands, text_box, ed_obs,
    \* the event processor running a command sequence, and the truth of the
    \* commands' conditions in the game state
    processor, truths,
    \* the query engine's game: the units' tiles, what else the lookups read
    \* of the game (teams, inventories, convoy), and the last query
    \* (query_engine.py)
    q_pos, q_game, q_obs,
    \* the event editor's catalog of event definitions with the one shown
    \* (event_properties.py), and an item prefab being loaded (items.py)
    ed_data, db,
    \* the screen's Foreground and a PanoramaBackground (background.py)
    fg, bg

roam_vars == <<roam_unit, last_move, speed, vspeed, hspeed, direction, ai_targets,
               unit_pos, board, terrain, roam_speed, level_roam, level_roam_unit,
               regions, talk, state_stack, pc, ticks, raised, obs>>

edit_vars == <<commands, text_box, ed_obs>>
run_vars == <<processor, truths>>
query_vars == <<q_pos, q_game, q_obs>>
data_vars == <<ed_data, db, fg, bg>>

vars == <<roam_vars, edit_vars, run_vars, query_vars, data_vars>>

\* the parts of the system a specification leaves at rest
NoEdit == commands = <<>> /\ text_box = <<>> /\ ed_obs = [op |-> "none"]
NoRun == processor = [state |-> "idle"] /\ truths = {}
NoQuery == q_pos = <<>> /\ q_game = [loaded |-> FALSE] /\ q_obs = [op |-> "none"]
NoView == fg = [op |-> "none"] /\ bg = [op |-> "none"]
NoData == ed_data = [current |-> 0] /\ db = [op |-> "none"] /\ NoView

-----------------------------------------------------------------------------
\* Bounds of the model

\* take_input ticks in one behaviour of SpecMove
MaxTicks == 7
\* take_input ticks in one behaviour of SpecRoam
MaxCtlTicks == 2
\* milliseconds between two frames of the game loop
FrameMs == 100

-----------------------------------------------------------------------------
\* Program constants, in fixed-point units (1 unit = 0.002 tile)

base_speed == 4
base_accel == 4
running_accel == 5
\* one tile, derived from base_accel = 0.008 tile
Scale == 125 * base_accel
\* tolerance = 0.4 tile
tolerance == (2 * Scale) \div 5
\* milliseconds without a move after which update stops the walk
move_timeout == 166
\* movement cost from which a tile is impassable
Impassable == 99
\* direction accelerator set by a held input
PushDir == 5

None == "None"
NoPos == <<>>

\* The board: BoardW x BoardH tiles, bounds = (0, 0, BoardW - 1, BoardH - 1)
BoardW == 3
BoardH == 2
Tiles == (0 .. BoardW - 1) \X (0 .. BoardH - 1)
bounds == <<0, 0, BoardW - 1, BoardH - 1>>

\* The units of the level, in game.units order, and their teams
UnitOrder == <<"Eirika", "Seth", "Bandit">>
Units == {UnitOrder[i] : i \in 1 .. Len(UnitOrder)}
team == [u \in Units |-> CASE u = "Eirika" -> "player"
                           [] u = "Seth" -> "other"
                           [] OTHER -> "enemy"]
\* units driven by a roam AI
RoamAIUnits == {"Bandit"}

Abs(n) == IF n < 0 THEN -n ELSE n

\* Python round(): to the nearest integer, a half to the even neighbour
Round(v) ==
    LET q == v \div Scale
        r == v % Scale
    IN  IF 2 * r < Scale THEN q
        ELSE IF 2 * r > Scale THEN q + 1
        ELSE IF q % 2 = 0 THEN q ELSE q + 1

\* Python int(): truncation toward zero
Trunc(v) == IF v >= 0 THEN v \div Scale ELSE -((-v) \div Scale)

RoundPos(p) == <<Round(p[1]), Round(p[2])>>
TilePos(t) == <<t[1] * Scale, t[2] * Scale>>

-----------------------------------------------------------------------------
\* Collaborators of the roam state that live outside roam_state.py

\* utils.calculate_distance: Manhattan distance
calculate_distance(p, q) == Abs(p[1] - q[1]) + Abs(p[2] - q[2])

\* utils.compare_teams: TRUE for allies
compare_teams(t1, t2) ==
    \/ t1 = t2
    \/ {t1, t2} = {"player", "other"}

\* game.movement.get_mcost: the terrain's cost, impassable off the map
get_mcost(ter, tile) == IF tile \in Tiles THEN ter[tile] ELSE Impassable

\* game.board.get_unit / get_team
board_get_unit(b, tile) == IF tile \in Tiles THEN b[tile] ELSE None
board_get_team(b, tile) ==
    IF board_get_unit(b, tile) = None THEN None ELSE team[board_get_unit(b, tile)]

\* game.get_unit: the unit of that nid, None when there is none
get_unit(nid) == IF nid \in Units THEN nid ELSE None

\* game.leave / game.arrive: board bookkeeping of a unit that has a position
game_leave(b, pos, u) ==
    IF pos[u] # NoPos /\ RoundPos(pos[u]) \in Tiles /\ b[RoundPos(pos[u])] = u
    THEN [b EXCEPT ![RoundPos(pos[u])] = None]
    ELSE b

game_arrive(b, pos, u) ==
    IF pos[u] # NoPos /\ RoundPos(pos[u]) \in Tiles
    THEN [b EXCEPT ![RoundPos(pos[u])] = u]
    ELSE b

\* target_system.get_nearest_open_tile: rings of growing Manhattan radius
\* around the tile, the first tile that is on the map, passable and free
IsOpen(b, ter, tile) ==
    tile \in Tiles /\ b[tile] = None /\ ter[tile] < Impassable

RingTile(tile, r, k) ==
    \* k-th candidate of ring r: x runs over -r..r, for each x first +dy then -dy
    LET x == ((k - 1) \div 2) - r
        dy == r - Abs(x)
    IN  IF k % 2 = 1 THEN <<tile[1] + x, tile[2] + dy>>
        ELSE <<tile[1] + x, tile[2] - dy>>

RECURSIVE NearestFrom(_, _, _, _, _)
NearestFrom(b, ter, tile, r, k) ==
    IF r > BoardW + BoardH THEN NoPos
    ELSE IF k > 2 * (2 * r + 1) THEN NearestFrom(b, ter, tile, r + 1, 1)
    ELSE IF IsOpen(b, ter, RingTile(tile, r, k)) THEN RingTile(tile, r, k)
    ELSE NearestFrom(b, ter, tile, r, k + 1)

get_nearest_open_tile(b, ter, tile) == NearestFrom(b, ter, tile, 0, 1)

\* the attributes of the level's regions
RegionIds == {"Gate", "Trap", "Village"}
RegionDef ==
    [r \in RegionIds |->
        CASE r = "Gate" ->
                [tiles |-> {<<0, 0>>, <<1, 0>>}, interrupt_move |-> TRUE,
                 only_once |-> TRUE, region_type |-> "event", sub_nid |-> "Gate"]
          [] r = "Trap" ->
                [tiles |-> {<<0, 0>>, <<0, 1>>}, interrupt_move |-> TRUE,
                 only_once |-> FALSE, region_type |-> "normal", sub_nid |-> "Trap"]
          [] OTHER ->
                [tiles |-> {<<0, 0>>, <<1, 0>>, <<1, 1>>}, interrupt_move |-> FALSE,
                 only_once |-> TRUE, region_type |-> "event", sub_nid |-> "Visit"]]

region_contains(r, tile) == tile \in RegionDef[r].tiles

\* game.get_region_under_pos: the first region of the level holding the tile
RECURSIVE FirstRegionAt(_, _, _)
FirstRegionAt(regs, tile, i) ==
    IF i > Len(regs) THEN None
    ELSE IF region_contains(regs[i], tile) THEN regs[i]
    ELSE FirstRegionAt(regs, tile, i + 1)

get_region_under_pos(regs, tile) == FirstRegionAt(regs, tile, 1)

\* Data.delete: the sequence without the element
SeqWithout(s, x) ==
    LET keep == {i \in 1 .. Len(s) : s[i] # x}
        f[i \in 0 .. Len(s)] ==
            IF i = 0 THEN <<>>
            ELSE IF i \in keep THEN Append(f[i - 1], s[i]) ELSE f[i - 1]
    IN  f[Len(s)]

-----------------------------------------------------------------------------
\* FreeRoamState.  The handlers thread a record W of everything they may
\* change: the state's own fields, the units' positions, the board, the
\* level's regions, the talk pairs, the state stack, whether the handler has
\* raised, and what it did (rp: the local rounded_position; fired / tried:
\* the triggers that returned True / were invoked; ratted: the units
\* rationalized; rat: the positions when rationalize was entered, and the
\* positions and the board when it returned; hits: the regions a trigger
\* was fired for, each with what the trigger returned; intr: for each
\* roaming_interrupt, the tile the roam unit stood on, the unit the board
\* held there, and the positions and the board when the trigger fired;
\* talked, visited: what can_talk and can_visit gave the SELECT handler;
\* cleared: the steps that used self.roam_unit while it was None).

World ==
    [roam_unit |-> roam_unit, last_move |-> last_move, speed |-> speed,
     vspeed |-> vspeed, hspeed |-> hspeed, direction |-> direction,
     unit_pos |-> unit_pos, board |-> board, regions |-> regions, talk |-> talk,
     state_stack |-> state_stack, level_roam |-> level_roam,
     ai_targets |-> ai_targets,
     raised |-> FALSE, rp |-> NoPos, fired |-> {}, tried |-> {}, removed |-> {},
     ratted |-> {}, hits |-> {}, intr |-> {}, talked |-> None, visited |-> None,
     cleared |-> {},
     rat |-> [done |-> FALSE, pos |-> unit_pos, after |-> unit_pos, board |-> board]]

\* the tile can_move looks at from position p
\* can_move with the cost test off by one: a tile of cost exactly 99 passes
can_move_cost_le(W, direc) ==
    LET p == W.unit_pos[W.roam_unit]
        check == CASE direc = "LEFT" -> <<Round(p[1] - tolerance), Round(p[2])>>
                   [] direc = "RIGHT" -> <<Round(p[1] + tolerance), Round(p[2])>>
                   [] direc = "UP" -> <<Round(p[1]), Round(p[2] - tolerance)>>
                   [] direc = "DOWN" -> <<Round(p[1]), Round(p[2] + tolerance)>>
        mcost == get_mcost(terrain, check)
        occupant == board_get_unit(W.board, check)
    IN  /\ mcost <= Impassable
        /\ (occupant # None => compare_teams(team[W.roam_unit], team[occupant]))

\* no_bumps that forgets the team of the occupant
no_bumps_any_team(W, tile) == TRUE

CheckTile(p, direc) ==
    CASE direc = "LEFT" -> <<Round(p[1] - tolerance), Round(p[2])>>
      [] direc = "RIGHT" -> <<Round(p[1] + tolerance), Round(p[2])>>
      [] direc = "UP" -> <<Round(p[1]), Round(p[2] - tolerance)>>
      [] direc = "DOWN" -> <<Round(p[1]), Round(p[2] + tolerance)>>

\* roam_state.py:241-250
no_bumps(W, tile) ==
    IF board_get_unit(W.board, tile) # None
    THEN LET other_team == board_get_team(W.board, tile)
         IN  IF other_team = None \/ compare_teams(team[W.roam_unit], other_team)
             THEN TRUE
             ELSE FALSE
    ELSE TRUE

\* roam_state.py:217-239
can_move(W, direc) ==
    LET check == CheckTile(W.unit_pos[W.roam_unit], direc)
        mcost == get_mcost(terrain, check)
    IN  mcost < Impassable /\ no_bumps(W, check)

\* roam_state.py:275-281
rationalize_unit(W, unit) ==
    IF W.unit_pos[unit] = NoPos THEN [W EXCEPT !.raised = TRUE]
    ELSE
    LET p == W.unit_pos[unit]
        new_pos == <<Trunc(p[1]), Trunc(p[2])>>
        current_occupant == board_get_unit(W.board, new_pos)
        placed == IF current_occupant # None /\ current_occupant # unit
                  THEN get_nearest_open_tile(W.board, terrain, new_pos)
                  ELSE new_pos
        pos2 == [W.unit_pos EXCEPT ![unit] = IF placed = NoPos THEN NoPos ELSE TilePos(placed)]
    IN  [W EXCEPT !.unit_pos = pos2,
                  !.board = game_arrive(W.board, pos2, unit),
                  !.ratted = @ \cup {unit}]

RECURSIVE rationalize_targets(_, _)
rationalize_targets(W, i) ==
    IF W.raised \/ i > Len(W.ai_targets) THEN W
    ELSE rationalize_targets(rationalize_unit(W, W.ai_targets[i]), i + 1)

\* rationalize that forgets to reset the speed
rationalize_keeps_speed(W) ==
    IF W.roam_unit = None
    THEN [W EXCEPT !.raised = TRUE, !.cleared = @ \cup {"rationalize"}]
    ELSE IF W.unit_pos[W.roam_unit] = NoPos
    THEN [W EXCEPT !.raised = TRUE]
    ELSE
    LET ru == W.roam_unit
        rounded == RoundPos(W.unit_pos[ru])
        current_occupant == board_get_unit(W.board, rounded)
        new_pos == IF current_occupant # None
                   THEN get_nearest_open_tile(W.board, terrain, rounded)
                   ELSE rounded
        pos2 == [W.unit_pos EXCEPT ![ru] = IF new_pos = NoPos THEN NoPos ELSE TilePos(new_pos)]
        W1 == [W EXCEPT !.unit_pos = pos2,
                        !.rat.pos = W.unit_pos,
                        !.board = game_arrive(W.board, pos2, ru),
                        !.ratted = @ \cup {ru}]
        W2 == rationalize_targets(W1, 1)
    IN  IF W2.raised THEN W2
        ELSE [W2 EXCEPT !.vspeed = 0, !.hspeed = 0,
                        !.roam_unit = None, !.last_move = 0,
                        !.rat.done = TRUE, !.rat.after = W2.unit_pos,
                        !.rat.board = W2.board]

\* roam_state.py:252-273
rationalize(W) ==
    IF W.roam_unit = None
    THEN [W EXCEPT !.raised = TRUE, !.cleared = @ \cup {"rationalize"}]
    ELSE IF W.unit_pos[W.roam_unit] = NoPos
    THEN [W EXCEPT !.raised = TRUE]
    ELSE
    LET ru == W.roam_unit
        rounded == RoundPos(W.unit_pos[ru])
        current_occupant == board_get_unit(W.board, rounded)
        new_pos == IF current_occupant # None
                   THEN get_nearest_open_tile(W.board, terrain, rounded)
                   ELSE rounded
        pos2 == [W.unit_pos EXCEPT ![ru] = IF new_pos = NoPos THEN NoPos ELSE TilePos(new_pos)]
        W1 == [W EXCEPT !.unit_pos = pos2,
                        !.rat.pos = W.unit_pos,
                        !.board = game_arrive(W.board, pos2, ru),
                        !.ratted = @ \cup {ru}]
        W2 == rationalize_targets(W1, 1)
    IN  IF W2.raised THEN W2
        ELSE [W2 EXCEPT !.speed = 0, !.vspeed = 0, !.hspeed = 0,
                        !.roam_unit = None, !.last_move = 0,
                        !.rat.done = TRUE, !.rat.after = W2.unit_pos,
                        !.rat.board = W2.board]

\* can_talk that takes the last of the nearest units
can_talk_last_nearest(W) ==
    LET near == {i \in 1 .. Len(UnitOrder) :
                    /\ W.unit_pos[UnitOrder[i]] # NoPos
                    /\ UnitOrder[i] # W.roam_unit
                    /\ W.roam_unit # None
                    /\ calculate_distance(W.unit_pos[W.roam_unit],
                                          W.unit_pos[UnitOrder[i]]) < Scale}
        d(i) == calculate_distance(W.unit_pos[W.roam_unit], W.unit_pos[UnitOrder[i]])
    IN  IF near = {} THEN None
        ELSE UnitOrder[CHOOSE i \in near :
                          \A j \in near : d(i) < d(j) \/ (d(i) = d(j) /\ i >= j)]

\* can_visit that takes a condition that raises for a true one
can_visit_raise_counts(W, truth) ==
    IF W.roam_unit = None THEN None
    ELSE LET region == FirstRegionAt(W.regions, RoundPos(W.unit_pos[W.roam_unit]), 1)
         IN  IF region # None /\ RegionDef[region].region_type = "event" /\ truth # "false"
             THEN region
             ELSE None

\* roam_state.py:283-296
can_talk(W) ==
    LET near == {i \in 1 .. Len(UnitOrder) :
                    /\ W.unit_pos[UnitOrder[i]] # NoPos
                    /\ UnitOrder[i] # W.roam_unit
                    /\ W.roam_unit # None
                    /\ calculate_distance(W.unit_pos[W.roam_unit],
                                          W.unit_pos[UnitOrder[i]]) < Scale}
        d(i) == calculate_distance(W.unit_pos[W.roam_unit], W.unit_pos[UnitOrder[i]])
    IN  IF near = {} THEN None
        ELSE UnitOrder[CHOOSE i \in near :
                          \A j \in near : d(i) < d(j) \/ (d(i) = d(j) /\ i <= j)]

\* roam_state.py:298-312; truth is what evaluate.evaluate does with the
\* region's condition: "true", "false" or "raise"
can_visit(W, truth) ==
    IF W.roam_unit = None THEN None
    ELSE LET region == get_region_under_pos(W.regions, RoundPos(W.unit_pos[W.roam_unit]))
         IN  IF region # None /\ RegionDef[region].region_type = "event" /\ truth = "true"
             THEN region
             ELSE None

\* roam_state.py:203-215
move(W, dx, dy) ==
    LET p == W.unit_pos[W.roam_unit]
    IN  [W EXCEPT !.unit_pos[W.roam_unit] = <<p[1] + dx, p[2] + dy>>]

-----------------------------------------------------------------------------
\* FreeRoamState.take_input, step by step (roam_state.py:66-192)

DirKeys == {"LEFT", "RIGHT", "UP", "DOWN"}

\* roam_state.py:75-78; roam_speed is game_vars["_roam_speed"] in tenths
max_speed_of(held) ==
    IF "BACK" \in held THEN (15 * roam_speed) \div 2 ELSE 5 * roam_speed

\* the axis whose direction stays up after the key is let go
axis_direction_sticky(d, c, neg, pos, lo, hi, held, just) ==
    LET push_neg == (neg \in held \/ neg \in just) /\ c > lo * Scale
        push_pos == (pos \in held \/ pos \in just) /\ c < hi * Scale
        d1 == IF push_neg THEN -PushDir ELSE IF push_pos THEN PushDir ELSE d
        d3 == IF neg \notin held /\ d1 < 0 THEN d1 + 1 ELSE d1
    IN  <<d3, push_neg \/ push_pos>>

\* roam_state.py:80-106, one axis: neg / pos are the keys of the axis, lo / hi
\* the board bounds, c the unit's coordinate, d the direction component.
\* The result is <<direction component, whether last_move was stamped>>
axis_direction(d, c, neg, pos, lo, hi, held, just) ==
    LET push_neg == (neg \in held \/ neg \in just) /\ c > lo * Scale
        push_pos == (pos \in held \/ pos \in just) /\ c < hi * Scale
        d1 == IF push_neg THEN -PushDir ELSE IF push_pos THEN PushDir ELSE d
        d2 == IF pos \notin held /\ d1 > 0 THEN d1 - 1 ELSE d1
        d3 == IF neg \notin held /\ d2 < 0 THEN d2 + 1 ELSE d2
    IN  <<d3, push_neg \/ push_pos>>

\* roam_state.py:80-106
update_direction(W, held, just, now) ==
    LET p == W.unit_pos[W.roam_unit]
        h == axis_direction(W.direction[1], p[1], "LEFT", "RIGHT", bounds[1], bounds[3], held, just)
        v == axis_direction(W.direction[2], p[2], "UP", "DOWN", bounds[2], bounds[4], held, just)
    IN  [W EXCEPT !.direction = <<h[1], v[1]>>,
                  !.last_move = IF h[2] \/ v[2] THEN now ELSE @]

\* roam_state.py:108-122
update_axis_speeds(W) ==
    LET hs == IF W.direction[1] > 0 /\ can_move(W, "RIGHT") THEN W.speed
              ELSE IF W.direction[1] < 0 /\ can_move(W, "LEFT") THEN -W.speed
              ELSE 0
        vs == IF W.direction[2] > 0 /\ can_move(W, "DOWN") THEN W.speed
              ELSE IF W.direction[2] < 0 /\ can_move(W, "UP") THEN -W.speed
              ELSE 0
    IN  [W EXCEPT !.hspeed = hs, !.vspeed = vs]

\* roam_state.py:124-129
move_step(W) ==
    LET W1 == IF Abs(W.hspeed) > base_speed \/ Abs(W.vspeed) > base_speed
              THEN move(W, W.hspeed, W.vspeed)
              ELSE W
    IN  [W1 EXCEPT !.rp = RoundPos(W1.unit_pos[W1.roam_unit])]

\* roam_state.py:133-142
update_speed(W, held, just) ==
    LET max_speed == max_speed_of(held)
        pushing == (just \cap DirKeys # {}) \/ (held \cap DirKeys # {})
        sp == W.speed
        sp2 == IF pushing
               THEN IF sp < max_speed /\ "BACK" \in held THEN sp + running_accel
                    ELSE IF sp < max_speed THEN sp + base_accel
                    ELSE IF sp > max_speed THEN sp - running_accel
                    ELSE sp
               ELSE IF sp >= base_speed \/ sp > max_speed THEN sp - running_accel
                    ELSE sp
    IN  [W EXCEPT !.speed = sp2]

\* action.RemoveRegion
remove_region(W, region) ==
    [W EXCEPT !.regions = SeqWithout(@, region), !.removed = @ \cup {region}]

\* the loop body that removes the region whatever its only_once flag says
interrupt_region_removes(W, region, did_trigger) ==
    IF W.roam_unit = None
    THEN [W EXCEPT !.raised = TRUE, !.cleared = @ \cup {"roaming_interrupt"}]
    ELSE LET W2 == [W EXCEPT !.tried = @ \cup {"roaming_interrupt"},
                             !.fired = IF did_trigger THEN @ \cup {"roaming_interrupt"} ELSE @,
                             !.hits = @ \cup {<<region, did_trigger>>}]
             W3 == IF did_trigger THEN rationalize(W2) ELSE W2
         IN  IF W3.raised THEN W3
             ELSE IF did_trigger THEN remove_region(W3, region)
             ELSE W3

\* roam_state.py:146-154, the body of the loop for one interrupt_move region
\* under the rounded position; did_trigger is what game.events.trigger returns
interrupt_region(W, region, did_trigger) ==
    IF W.roam_unit = None
    THEN [W EXCEPT !.raised = TRUE, !.cleared = @ \cup {"roaming_interrupt"}]
    ELSE
    LET current_occupant == board_get_unit(W.board, W.rp)
        rp2 == IF current_occupant # None
               THEN get_nearest_open_tile(W.board, terrain, W.rp)
               ELSE W.rp
        W1 == IF current_occupant # None
              THEN [W EXCEPT !.rp = rp2,
                             !.unit_pos[W.roam_unit] =
                                 IF rp2 = NoPos THEN NoPos ELSE TilePos(rp2)]
              ELSE W
        W2 == [W1 EXCEPT !.tried = @ \cup {"roaming_interrupt"},
                         !.fired = IF did_trigger THEN @ \cup {"roaming_interrupt"} ELSE @,
                         !.hits = @ \cup {<<region, did_trigger>>},
                         !.intr = @ \cup {[tile |-> W.rp, occupant |-> current_occupant,
                                           roam_unit |-> W.roam_unit,
                                           pos |-> W1.unit_pos, board |-> W1.board]}]
        W3 == IF did_trigger THEN rationalize(W2) ELSE W2
    IN  IF W3.raised THEN W3
        ELSE IF RegionDef[region].only_once /\ did_trigger
        THEN remove_region(W3, region)
        ELSE W3

\* roam_state.py:144-154: the loop walks the live list by index, so a region
\* removed at index i moves the following one to i and the loop skips it
RECURSIVE interrupt_loop(_, _, _)
interrupt_loop(W, i, trig) ==
    IF W.raised \/ i > Len(W.regions) THEN W
    ELSE LET region == W.regions[i]
         IN  IF W.rp # NoPos /\ region_contains(region, W.rp)
                /\ RegionDef[region].interrupt_move
             THEN interrupt_loop(interrupt_region(W, region, trig[region]), i + 1, trig)
             ELSE interrupt_loop(W, i + 1, trig)

\* roam_state.py:165-170: the region's sub_nid trigger
visit_region(W, region, did_trigger) ==
    LET W1 == [W EXCEPT !.tried = @ \cup {"region"},
                        !.fired = IF did_trigger THEN @ \cup {"region"} ELSE @,
                        !.hits = @ \cup {<<region, did_trigger>>}]
        W2 == IF did_trigger THEN rationalize(W1) ELSE W1
    IN  IF W2.raised THEN W2
        ELSE IF did_trigger /\ RegionDef[region].only_once
        THEN remove_region(W2, region)
        ELSE W2

\* the SELECT handler that goes on to the region when on_talk returned False
on_select_falls_through(W, did_trigger, truth) ==
    LET other_unit == can_talk(W)
        region == can_visit(W, truth)
        W0 == [W EXCEPT !.talked = other_unit, !.visited = region]
    IN  IF other_unit # None /\ did_trigger
        THEN rationalize([W0 EXCEPT !.tried = @ \cup {"on_talk"},
                                    !.fired = @ \cup {"on_talk"},
                                    !.talk = @ \ {<<W.roam_unit, other_unit>>}])
        ELSE IF region # None
        THEN visit_region([W0 EXCEPT !.tried = IF other_unit # None
                                               THEN @ \cup {"on_talk"} ELSE @],
                          region, did_trigger)
        ELSE W0

\* roam_state.py:156-173
on_select(W, did_trigger, truth) ==
    LET other_unit == can_talk(W)
        region == can_visit(W, truth)
        W0 == [W EXCEPT !.talked = other_unit, !.visited = region]
    IN  IF other_unit # None
        THEN LET W1 == [W0 EXCEPT !.tried = @ \cup {"on_talk"},
                                  !.fired = IF did_trigger THEN @ \cup {"on_talk"} ELSE @]
             IN  IF did_trigger
                 THEN rationalize([W1 EXCEPT !.talk = @ \ {<<W.roam_unit, other_unit>>}])
                 ELSE W1
        ELSE IF region # None
        THEN visit_region(W0, region, did_trigger)
        ELSE W0

\* roam_state.py:178-192: INFO and START fire their trigger and rationalize
\* when it returned True
on_press(W, name, did_trigger) ==
    LET W1 == [W EXCEPT !.tried = @ \cup {name},
                        !.fired = IF did_trigger THEN @ \cup {name} ELSE @,
                        !.cleared = IF W.roam_unit = None THEN @ \cup {name} ELSE @]
    IN  IF did_trigger THEN rationalize(W1) ELSE W1

\* roam_state.py:156-192
handle_event(W, event, did_trigger, truth) ==
    IF W.raised THEN W
    ELSE CASE event = "SELECT" -> on_select(W, did_trigger, truth)
           [] event = "AUX" -> [W EXCEPT !.state_stack = Append(@, "option_menu")]
           [] event = "INFO" -> on_press(W, "roam_press_info", did_trigger)
           [] event = "START" -> on_press(W, "roam_press_start", did_trigger)
           [] OTHER -> W

\* roam_state.py:66-192, for a held roam unit
take_input_of(W, held, just, now, event, trig, did_trigger, truth) ==
    LET W1 == update_direction(W, held, just, now)
        W2 == update_axis_speeds(W1)
        W3 == move_step(W2)
        W4 == update_speed(W3, held, just)
        W5 == interrupt_loop(W4, 1, trig)
    IN  handle_event(W5, event, did_trigger, truth)

-----------------------------------------------------------------------------
\* The level the model runs: terrain, where the units stand, the regions

Nids == {"", "Eirika", "Seth", "Ghost"}
\* what an event leaves in game.level.roam and game.level.roam_unit
RoamSettings ==
    {<<TRUE, "Eirika">>, <<TRUE, "Seth">>, <<TRUE, "Ghost">>, <<TRUE, "">>,
     <<FALSE, "Eirika">>}

AllPassable == [t \in Tiles |-> 1]
\* Eirika next to her ally Seth (to the right) and the enemy Bandit (below)
Crowded ==
    [terrain |-> AllPassable,
     unit_pos |-> [u \in Units |-> CASE u = "Eirika" -> TilePos(<<0, 0>>)
                                     [] u = "Seth" -> TilePos(<<1, 0>>)
                                     [] OTHER -> TilePos(<<0, 1>>)]]
\* Eirika next to a wall (to the right) and a cliff (below), the others apart
Walled ==
    [terrain |-> [AllPassable EXCEPT ![<<1, 0>>] = Impassable, ![<<0, 1>>] = Impassable + 1],
     unit_pos |-> [u \in Units |-> CASE u = "Eirika" -> TilePos(<<0, 0>>)
                                     [] u = "Seth" -> TilePos(<<2, 0>>)
                                     [] OTHER -> TilePos(<<2, 1>>)]]

\* the board that holds every unit at its position
BoardOf(pos) ==
    [t \in Tiles |-> IF \E u \in Units : pos[u] = TilePos(t)
                     THEN CHOOSE u \in Units : pos[u] = TilePos(t)
                     ELSE None]

\* what the last handler did
NoObs ==
    [op |-> "none", result |-> "none", active |-> FALSE, hs |-> 0, vs |-> 0,
     from |-> NoPos, to |-> NoPos, cap |-> 0, speed0 |-> 0, fired |-> {}, tried |-> {},
     removed |-> {}, ratted |-> {}, rat |-> [done |-> FALSE], pre_unit |-> None, pre_roam |-> FALSE,
     hits |-> {}, intr |-> {}, regions0 |-> <<>>, truth |-> "none", talked |-> None,
     visited |-> None, talk0 |-> {}, cleared |-> {}, dir0 |-> <<0, 0>>, quiet |-> 0]

\* FreeRoamState.start (roam_state.py:16-27) on a level
InitOn(sc, regs, settings) ==
    /\ roam_unit = None
    /\ last_move = 0
    /\ speed = 0
    /\ vspeed = 0
    /\ hspeed = 0
    /\ direction = <<0, 0>>
    /\ ai_targets = <<>>
    /\ terrain = sc.terrain
    /\ unit_pos = sc.unit_pos
    /\ board = BoardOf(sc.unit_pos)
    /\ regions = regs
    /\ roam_speed = 2
    /\ \E setting \in settings :
        /\ level_roam = setting[1]
        /\ level_roam_unit = setting[2]
    /\ talk = {<<"Eirika", "Seth">>}
    /\ state_stack = <<"base", "free_roam">>
    /\ pc = "begin"
    /\ ticks = 0
    /\ raised = FALSE
    /\ obs = NoObs
    /\ NoEdit /\ NoRun /\ NoQuery /\ NoData

InitRoam == InitOn(Crowded, <<"Gate", "Trap", "Village">>, RoamSettings)

InitMove == \E sc \in {Crowded, Walled} : InitOn(sc, <<"Village">>, {<<TRUE, "Eirika">>})

Top(stk) == IF stk = <<>> THEN None ELSE stk[Len(stk)]
Pop(stk) == IF stk = <<>> THEN stk ELSE SubSeq(stk, 1, Len(stk) - 1)

\* the variables a handler's World is written back to
Commit(W) ==
    /\ roam_unit' = W.roam_unit
    /\ last_move' = W.last_move
    /\ speed' = W.speed
    /\ vspeed' = W.vspeed
    /\ hspeed' = W.hspeed
    /\ direction' = W.direction
    /\ unit_pos' = W.unit_pos
    /\ board' = W.board
    /\ regions' = W.regions
    /\ talk' = W.talk
    /\ state_stack' = W.state_stack
    /\ level_roam' = W.level_roam
    /\ ai_targets' = W.ai_targets
    /\ raised' = W.raised

\* FreeRoamAIHandler.reload: the roam-AI units that are on the map
reload(pos) ==
    SelectSeq(UnitOrder, LAMBDA u : u \in RoamAIUnits /\ pos[u] # NoPos)

\* roam_state.py:33-55, the choice of the roam unit
begin_choose(W) ==
    IF W.level_roam /\ level_roam_unit # ""
    THEN IF W.roam_unit # None /\ W.roam_unit # level_roam_unit
         THEN LET W1 == rationalize(W)
                  new_unit == get_unit(level_roam_unit)
              IN  IF W1.raised THEN W1
                  ELSE IF new_unit = None
                  THEN [W1 EXCEPT !.roam_unit = None, !.raised = TRUE,
                                  !.cleared = @ \cup {"game.leave"}]
                  ELSE [W1 EXCEPT !.roam_unit = new_unit,
                                  !.board = game_leave(W1.board, W1.unit_pos, new_unit)]
         ELSE IF W.roam_unit # None THEN W
         ELSE IF get_unit(level_roam_unit) # None
         THEN [W EXCEPT !.roam_unit = get_unit(level_roam_unit),
                        !.board = game_leave(W.board, W.unit_pos, get_unit(level_roam_unit))]
         ELSE W
    ELSE IF W.roam_unit # None THEN rationalize(W)
    ELSE W

\* roam_state.py:57-64
begin_leave(W) ==
    IF W.raised THEN W
    ELSE IF W.roam_unit = None \/ W.unit_pos[W.roam_unit] = NoPos
    THEN [W EXCEPT !.level_roam = FALSE, !.state_stack = Pop(@)]
    ELSE W

\* FreeRoamState.begin (roam_state.py:29-64)
begin ==
    /\ ~raised
    /\ pc = "begin"
    /\ Top(state_stack) = "free_roam"
    /\ \E W \in {begin_leave(begin_choose([World EXCEPT !.ai_targets = reload(unit_pos)]))} :
       \E result \in {IF W.raised THEN "raise"
                     ELSE IF Len(W.state_stack) < Len(state_stack) THEN "repeat"
                     ELSE "none"} :
           /\ Commit(W)
           /\ obs' = [NoObs EXCEPT
                !.op = "begin",
                !.result = result,
                !.ratted = W.ratted,
                !.rat = IF W.rat.done THEN W.rat ELSE [done |-> FALSE],
                !.pre_unit = roam_unit,
                !.pre_roam = level_roam,
                !.cleared = W.cleared]
           /\ pc' = IF result = "none" THEN "input" ELSE "away"
    /\ UNCHANGED <<terrain, roam_speed, level_roam_unit, ticks>>
    /\ UNCHANGED <<edit_vars, run_vars, query_vars, data_vars>>

\* what the input manager hands one take_input call: the keys held
\* (is_pressed), the keys pressed this frame (just_pressed) and the event
MoveInputs ==
    { [held |-> {}, just |-> {}, event |-> "NONE"],
      [held |-> {"RIGHT", "BACK"}, just |-> {}, event |-> "NONE"],
      [held |-> {"DOWN", "BACK"}, just |-> {}, event |-> "NONE"],
      [held |-> {"LEFT"}, just |-> {}, event |-> "NONE"] }
Inputs ==
    { [held |-> {}, just |-> {}, event |-> "NONE"],
      [held |-> {"RIGHT"}, just |-> {}, event |-> "NONE"],
      [held |-> {"RIGHT"}, just |-> {}, event |-> "SELECT"],
      [held |-> {}, just |-> {}, event |-> "AUX"],
      [held |-> {}, just |-> {}, event |-> "INFO"],
      [held |-> {"DOWN", "BACK"}, just |-> {}, event |-> "START"] }

\* the regions whose roaming_interrupt trigger a tick may ask for
InterruptRegions(regs) ==
    {regs[i] : i \in {j \in 1 .. Len(regs) : RegionDef[regs[j]].interrupt_move}}

\* what game.events.trigger and evaluate.evaluate answer during the call:
\* trig holds the regions whose roaming_interrupt fires, did_trigger is the
\* answer to the event's trigger, truth the outcome of the region's condition
Answers(event) ==
    [trig : SUBSET InterruptRegions(regions),
     did_trigger : IF event \in {"SELECT", "INFO", "START"} THEN BOOLEAN ELSE {FALSE},
     truth : IF event = "SELECT" THEN {"true", "false", "raise"} ELSE {"false"}]

\* engine.get_time in the frame that follows n frames
get_time(n) == (n + 1) * FrameMs

\* no direction key is held or pressed in the input
Released(inp) == (inp.held \cup inp.just) \cap DirKeys = {}

\* FreeRoamState.take_input (roam_state.py:66-192); W3 is the state after the
\* movement step (line 131), W the state the call leaves.  obs.quiet counts
\* the ticks in a row, up to PushDir, without direction key and without
\* consumed trigger; obs.dir0 is the direction the tick started with
take_input(ins, limit) ==
    /\ ~raised
    /\ pc = "input"
    /\ ticks < limit
    /\ \E inp \in ins : \E ans \in Answers(inp.event) :
        IF roam_unit = None
        THEN /\ obs' = [NoObs EXCEPT !.op = "take_input"]
             /\ UNCHANGED <<roam_unit, last_move, speed, vspeed, hspeed, direction,
                            ai_targets, unit_pos, board, regions, talk,
                            state_stack, level_roam, raised>>
        ELSE \E W3 \in {move_step(update_axis_speeds(
                           update_direction(World, inp.held, inp.just, get_time(ticks))))} :
             \E W \in {take_input_of(World, inp.held, inp.just, get_time(ticks), inp.event,
                                    [r \in RegionIds |-> r \in ans.trig],
                                    ans.did_trigger, ans.truth)} :
                 /\ Commit(W)
                 /\ obs' = [NoObs EXCEPT
                        !.op = "take_input",
                        !.result = IF W.raised THEN "raise" ELSE "none",
                        !.active = TRUE,
                        !.hs = W3.hspeed,
                        !.vs = W3.vspeed,
                        !.from = unit_pos[roam_unit],
                        !.to = W3.unit_pos[roam_unit],
                        !.cap = max_speed_of(inp.held),
                        !.speed0 = speed,
                        !.fired = W.fired,
                        !.tried = W.tried,
                        !.removed = W.removed,
                        !.ratted = W.ratted,
                        !.rat = IF W.rat.done THEN W.rat ELSE [done |-> FALSE],
                        !.pre_unit = roam_unit,
                        !.hits = W.hits,
                        !.intr = W.intr,
                        !.regions0 = regions,
                        !.truth = IF inp.event = "SELECT" THEN ans.truth ELSE "none",
                        !.talked = W.talked,
                        !.visited = W.visited,
                        !.talk0 = talk,
                        !.cleared = W.cleared,
                        !.dir0 = direction,
                        !.quiet = IF Released(inp) /\ W.fired = {}
                                  THEN IF obs.quiet < PushDir THEN obs.quiet + 1 ELSE PushDir
                                  ELSE 0]
    /\ ticks' = ticks + 1
    /\ pc' = "update"
    /\ UNCHANGED <<terrain, roam_speed, level_roam_unit>>
    /\ UNCHANGED <<edit_vars, run_vars, query_vars, data_vars>>

\* FreeRoamAIHandler.update: a roam-AI unit may walk off its tile to a
\* fractional position
AISpot == <<Scale + (7 * Scale) \div 10, Scale>>

\* FreeRoamState.update (roam_state.py:194-201), the second call of a frame;
\* walkers are the units the AI handler may move in this frame
update(walkers) ==
    /\ ~raised
    /\ pc = "update"
    /\ \E walker \in {None} \cup (walkers \cap {ai_targets[i] : i \in 1 .. Len(ai_targets)}) :
        LET timeout == last_move # 0 /\ ticks * FrameMs - last_move > move_timeout
            walks == walker # None /\ unit_pos[walker] # NoPos
            b1 == IF walks THEN game_leave(board, unit_pos, walker) ELSE board
            p1 == IF walks THEN [unit_pos EXCEPT ![walker] = AISpot] ELSE unit_pos
        IN  /\ board' = b1
            /\ unit_pos' = p1
            /\ IF timeout /\ roam_unit = None
               THEN /\ raised' = TRUE
                    /\ last_move' = 0
                    /\ UNCHANGED direction
               ELSE /\ raised' = FALSE
                    /\ last_move' = IF timeout THEN 0 ELSE last_move
                    /\ direction' = IF timeout THEN <<0, 0>> ELSE direction
    /\ pc' = IF Top(state_stack) = "free_roam" THEN "input" ELSE "away"
    /\ UNCHANGED <<roam_unit, speed, vspeed, hspeed, ai_targets, terrain, roam_speed,
                   level_roam, level_roam_unit, regions, talk, state_stack,
                   ticks, obs>>
    /\ UNCHANGED <<edit_vars, run_vars, query_vars, data_vars>>

\* Another state runs on top of the roam state, or in its place, and hands
\* control back: an event may have set the level's roam flag and roam unit,
\* taken Eirika off the map, or moved Seth from his tile to the first tile
\* of the map.
other_state ==
    /\ ~raised
    /\ pc \in {"input", "away"}
    /\ \E setting \in RoamSettings, change \in {"none", "remove", "move"} :
        /\ change = "remove" => unit_pos["Eirika"] # NoPos
        /\ change = "move" =>
              /\ unit_pos["Seth"] # NoPos
              /\ board_get_unit(board, RoundPos(unit_pos["Seth"])) = "Seth"
              /\ IsOpen(board, terrain, <<0, 0>>)
        /\ level_roam' = setting[1]
        /\ level_roam_unit' = setting[2]
        /\ unit_pos' = CASE change = "remove" -> [unit_pos EXCEPT !["Eirika"] = NoPos]
                         [] change = "move" -> [unit_pos EXCEPT !["Seth"] = TilePos(<<0, 0>>)]
                         [] OTHER -> unit_pos
        /\ board' = CASE change = "remove" -> game_leave(board, unit_pos, "Eirika")
                      [] change = "move" ->
                            game_arrive(game_leave(board, unit_pos, "Seth"), unit_pos', "Seth")
                      [] OTHER -> board
    /\ state_stack' = IF Top(state_stack) = "option_menu" THEN Pop(state_stack)
                      ELSE IF Top(state_stack) = "free_roam" THEN state_stack
                      ELSE Append(state_stack, "free_roam")
    /\ pc' = "begin"
    /\ obs' = [NoObs EXCEPT !.op = "other_state"]
    /\ UNCHANGED <<roam_unit, last_move, speed, vspeed, hspeed, direction, ai_targets,
                   terrain, roam_speed, regions, talk, ticks, raised>>
    /\ UNCHANGED <<edit_vars, run_vars, query_vars, data_vars>>

\* the roam state under events, menus and triggers
NextRoam ==
    begin \/ take_input(Inputs, MaxCtlTicks) \/ update(RoamAIUnits) \/ other_state
SpecRoam == InitRoam /\ [][NextRoam]_vars

\* the roam unit walking
NextMove == begin \/ take_input(MoveInputs, MaxTicks) \/ update({})
SpecMove == InitMove /\ [][NextMove]_vars

-----------------------------------------------------------------------------
\* Claims about the roam unit's walk (SpecMove)

\* a take_input call on a held roam unit has just returned
AfterTick == pc = "update" /\ obs.op = "take_input" /\ obs.active

\* the tile can_move checked in that direction costs 99 or more
Blocked(direc) == get_mcost(terrain, CheckTile(obs.from, direc)) >= Impassable

\* C1: in a take_input tick, a roam unit pushed along an axis toward a checked
\* tile of movement cost 99 or more gets speed 0 on that axis, and the
\* movement step leaves its coordinate on that axis unchanged.
C1_BlockedAxisStays ==
    AfterTick =>
        /\ (direction[1] > 0 /\ Blocked("RIGHT")) => (obs.hs = 0 /\ obs.to[1] = obs.from[1])
        /\ (direction[1] < 0 /\ Blocked("LEFT")) => (obs.hs = 0 /\ obs.to[1] = obs.from[1])
        /\ (direction[2] > 0 /\ Blocked("DOWN")) => (obs.vs = 0 /\ obs.to[2] = obs.from[2])
        /\ (direction[2] < 0 /\ Blocked("UP")) => (obs.vs = 0 /\ obs.to[2] = obs.from[2])

\* C1 witness: the unit walked off its tile toward the wall on its right with
\* a speed that would move it, was pushed on, and was stopped on that axis.
C1_Witness ==
    /\ AfterTick
    /\ direction[1] > 0
    /\ Blocked("RIGHT")
    /\ CheckTile(obs.from, "RIGHT") # RoundPos(obs.from)
    /\ obs.speed0 > base_speed
    /\ obs.hs = 0

\* the roam unit is under control and stands somewhere
Roaming == roam_unit # None /\ unit_pos[roam_unit] # NoPos

Dirs == {"LEFT", "RIGHT", "UP", "DOWN"}
Checked(direc) == CheckTile(unit_pos[roam_unit], direc)

\* C2: for a passable checked tile, can_move allows the move when the tile is
\* unoccupied or its occupant is allied with the roam unit, and forbids it
\* when the occupant is an enemy.
C2_AlliesPassEnemiesBlock ==
    Roaming =>
        \A direc \in Dirs :
            LET tile == Checked(direc)
                occupant == board_get_unit(board, tile)
            IN  get_mcost(terrain, tile) < Impassable =>
                    /\ occupant = None => can_move(World, direc)
                    /\ (occupant # None /\ compare_teams(team[roam_unit], team[occupant]))
                          => can_move(World, direc)
                    /\ (occupant # None /\ ~compare_teams(team[roam_unit], team[occupant]))
                          => ~can_move(World, direc)

\* C2 witness: the roam unit walked down until the checked tile below is the
\* enemy's, and the tick that pushed it further down did not move it.
C2_Witness ==
    /\ AfterTick
    /\ Roaming
    /\ direction[2] > 0
    /\ board_get_unit(board, Checked("DOWN")) = "Bandit"
    /\ get_mcost(terrain, Checked("DOWN")) < Impassable
    /\ obs.speed0 > base_speed
    /\ obs.vs = 0
    /\ ~can_move(World, "DOWN")

\* C6: after a take_input tick on a held roam unit, the speed is at most the
\* tick's max speed when it was not above it before the tick.
C6_SpeedCapped ==
    (AfterTick /\ obs.speed0 <= obs.cap) => speed <= obs.cap

-----------------------------------------------------------------------------
\* Claims about control of the roam unit (SpecRoam)

\* when rationalize returned, unit stood on an integer tile as the board's
\* unit of that tile: the rounded position it had when rationalize was
\* entered, unless another unit held that tile
IsRationalized(unit) ==
    LET had == RoundPos(obs.rat.pos[unit])
        now == obs.rat.after[unit]
    IN  /\ now # NoPos
        /\ now = TilePos(RoundPos(now))
        /\ board_get_unit(obs.rat.board, RoundPos(now)) = unit
        /\ board_get_unit(obs.rat.board, had) \in {None, unit} => now = TilePos(had)

\* C3: after rationalize, the former roam unit and every roam-AI unit
\* rationalized with it stand on an integer tile no other unit occupies (the
\* rounded position they had when it is free), are back on the board, and
\* no two units stand on the same tile.
C3_RationalizedOnFreeTile ==
    obs.rat.done =>
        /\ obs.pre_unit \in obs.ratted
        /\ \A unit \in obs.ratted : IsRationalized(unit)
        /\ \A u1 \in obs.ratted : \A u2 \in Units \ {u1} :
              \/ obs.rat.after[u2] = NoPos
              \/ RoundPos(obs.rat.after[u2]) # RoundPos(obs.rat.after[u1])

\* the triggers of the tick that returned True
Consumed == obs.fired

\* C4: when a trigger invoked from take_input returned True, on return
\* roam_unit is None and speed, hspeed, vspeed and last_move are 0; when no
\* trigger of the tick returned True the roam unit stays under control.
C4_ConsumedTriggerRationalizes ==
    (obs.op = "take_input" /\ pc = "update" /\ obs.active /\ obs.result # "raise") =>
        /\ Consumed # {} =>
              /\ roam_unit = None
              /\ speed = 0 /\ hspeed = 0 /\ vspeed = 0 /\ last_move = 0
              /\ obs.pre_unit \in obs.ratted
        /\ Consumed = {} => roam_unit = obs.pre_unit

\* C4 witness: a moving roam unit gave up control to a consumed trigger
C4_Witness ==
    /\ obs.op = "take_input" /\ pc = "update" /\ obs.active
    /\ obs.result # "raise"
    /\ Consumed # {}
    /\ obs.speed0 > 0
    /\ roam_unit = None /\ speed = 0

\* the level's designated roam unit, None when the nid resolves to no unit
Designated == IF level_roam_unit = "" THEN None ELSE get_unit(level_roam_unit)

\* C5: begin stays in the roam state exactly when the level's roam flag is
\* set and the designated roam unit resolves to a unit with a position, and
\* then holds that unit off the board; in every other case it clears the
\* roam flag, pops the state and returns 'repeat', having rationalized a
\* held roam unit when the flag was clear.
C5_BeginActiveIffDesignated ==
    obs.op = "begin" =>
        IF obs.pre_roam /\ Designated # None /\ unit_pos[Designated] # NoPos
        THEN /\ obs.result = "none"
             /\ roam_unit = Designated
             /\ \A tile \in Tiles : board_get_unit(board, tile) # roam_unit
        ELSE /\ obs.result = "repeat"
             /\ ~level_roam
             /\ Top(state_stack) # "free_roam"
             /\ (~obs.pre_roam /\ obs.pre_unit # None) => obs.pre_unit \in obs.ratted

-----------------------------------------------------------------------------
\* Event commands and the event processor

\* the longest command sequence of well-formed blocks the model runs
MaxLen == 7
\* the longest command sequence of arbitrary commands the model runs
MaxRaw == 2
\* the passes of every for loop
ForIters == 2

\* an event command: its nid, its keyword values and its active flags
Cmd(nid) == [nid |-> nid, values |-> <<>>, flags |-> {}]

Openers == {"if", "for"}
Closers == {"end", "endf"}
Conditionals == {"if", "elif"}
ControlNids == {"if", "elif", "else", "end", "for", "endf"}
ScriptNids == ControlNids \cup {"wait"}

\* the sequences of n commands made of wait commands and complete
\* if / elif* / else? / end and for / endf blocks, nested freely
RECURSIVE Progs(_), Tails(_)
Progs(n) ==
    IF n < 0 THEN {}
    ELSE IF n = 0 THEN {<<>>}
    ELSE {<<"wait">> \o p : p \in Progs(n - 1)}
         \cup UNION {{<<"if">> \o t \o p : t \in Tails(k - 1), p \in Progs(n - k)}
                     : k \in 2 .. n}
         \cup UNION {{<<"for">> \o b \o <<"endf">> \o p : b \in Progs(k - 2), p \in Progs(n - k)}
                     : k \in 2 .. n}
\* what may follow an `if` up to and with its `end`, m commands long
Tails(m) ==
    IF m < 1 THEN {}
    ELSE {b \o <<"end">> : b \in Progs(m - 1)}
         \cup UNION {{b \o <<"elif">> \o t : b \in Progs(i), t \in Tails(m - i - 1)}
                     : i \in 0 .. m - 2}
         \cup UNION {{b \o <<"else">> \o q \o <<"end">> : b \in Progs(i), q \in Progs(m - i - 2)}
                     : i \in 0 .. m - 2}

\* the command sequences an event may hold: every well-formed one up to
\* MaxLen commands and every sequence at all up to MaxRaw commands
Scripts ==
    LET nids == UNION {Progs(n) : n \in 0 .. MaxLen}
                \cup UNION {[1 .. n -> ScriptNids] : n \in 0 .. MaxRaw}
    IN  {[i \in 1 .. Len(p) |-> Cmd(p[i])] : p \in nids}

\* the commands of cmds that carry a condition
CondIdx(cmds) == {i \in 1 .. Len(cmds) : cmds[i].nid \in Conditionals}

IfStatementStrategy == {"ALWAYS_TRUE", "ALWAYS_FALSE"}

\* skip_forward without the depth count: it stops at the first closer, elif
\* or else, whichever block that belongs to
RECURSIVE skip_forward_flat(_, _, _, _)
skip_forward_flat(cmds, i, depth, stops) ==
    IF i > Len(cmds) THEN i
    ELSE IF cmds[i].nid \in Closers \cup stops THEN i
    ELSE skip_forward_flat(cmds, i + 1, depth, stops)

\* the first command at or after position i that closes the block open at
\* i, or is one of stops at the block's own depth; Len + 1 when there is
\* none.  depth counts the openers passed minus the closers passed.
RECURSIVE skip_forward(_, _, _, _)
skip_forward(cmds, i, depth, stops) ==
    IF i > Len(cmds) THEN i
    ELSE LET nid == cmds[i].nid
         IN  IF nid \in Openers THEN skip_forward(cmds, i + 1, depth + 1, stops)
             ELSE IF nid \in Closers
             THEN IF depth = 0 THEN i ELSE skip_forward(cmds, i + 1, depth - 1, stops)
             ELSE IF depth = 0 /\ nid \in stops THEN i
             ELSE skip_forward(cmds, i + 1, depth, stops)

\* the truth of the condition of the command at position i: the strategy's
\* answer in a test run, the game state's otherwise
evaluate(P, i) ==
    CASE P.strategy = "ALWAYS_TRUE" -> TRUE
      [] P.strategy = "ALWAYS_FALSE" -> FALSE
      [] OTHER -> i \in truths

TopFrame(P) == P.frames[Len(P.frames)]
PopFrame(P) == SubSeq(P.frames, 1, Len(P.frames) - 1)
HasFrame(P, kind) == P.frames # <<>> /\ TopFrame(P).kind = kind

\* a new processor for cmds with the cursor at cursor_position
new_processor(cmds, cursor_position, strategy) ==
    [state |-> IF cursor_position < Len(cmds) THEN "RUNNING" ELSE "DONE",
     commands |-> cmds, cursor |-> cursor_position, from |-> cursor_position,
     frames |-> <<>>, strategy |-> strategy, log |-> <<>>, errors |-> 0]

\* the processor with its cursor on the command at position i
Goto(P, i) ==
    [P EXCEPT !.cursor = i - 1,
              !.state = IF i > Len(P.commands) THEN "DONE" ELSE "RUNNING"]

\* `if`: push a frame that records whether the branch is taken; when it is
\* not, skip to the matching elif / else / end
do_if(P, i) ==
    LET truth == evaluate(P, i)
        P1 == [P EXCEPT !.frames = Append(@, [kind |-> "if", taken |-> truth,
                                              start |-> i, left |-> 0])]
    IN  IF truth THEN Goto(P1, i + 1)
        ELSE Goto(P1, skip_forward(P.commands, i + 1, 0, {"elif", "else"}))

\* `elif` / `else`: after a taken branch skip to the end; otherwise evaluate
\* (elif) or take (else)
do_branch(P, i) ==
    IF ~HasFrame(P, "if") THEN Goto([P EXCEPT !.errors = @ + 1], i + 1)
    ELSE IF TopFrame(P).taken THEN Goto(P, skip_forward(P.commands, i + 1, 0, {}))
    ELSE IF P.commands[i].nid = "else" \/ evaluate(P, i)
    THEN Goto([P EXCEPT !.frames[Len(P.frames)].taken = TRUE], i + 1)
    ELSE Goto(P, skip_forward(P.commands, i + 1, 0, {"elif", "else"}))

\* `for`: push an iteration frame
do_for(P, i) ==
    IF ForIters = 0
    THEN LET close == skip_forward(P.commands, i + 1, 0, {})
         IN  Goto(P, IF close > Len(P.commands) THEN close ELSE close + 1)
    ELSE Goto([P EXCEPT !.frames = Append(@, [kind |-> "for", taken |-> TRUE,
                                              start |-> i, left |-> ForIters])],
              i + 1)

\* `end` / `endf`: pop the frame of the matching kind; an empty stack or a
\* frame of the other kind is reported and the run goes on
do_close(P, i) ==
    LET kind == IF P.commands[i].nid = "end" THEN "if" ELSE "for"
    IN  IF ~HasFrame(P, kind) THEN Goto([P EXCEPT !.errors = @ + 1], i + 1)
        ELSE IF kind = "for" /\ TopFrame(P).left > 1
        THEN Goto([P EXCEPT !.frames[Len(P.frames)].left = @ - 1], TopFrame(P).start + 1)
        ELSE Goto([P EXCEPT !.frames = PopFrame(P)], i + 1)

\* one command of the run
step(P) ==
    LET i == P.cursor + 1
        nid == P.commands[i].nid
    IN  CASE nid = "if" -> do_if(P, i)
          [] nid \in {"elif", "else"} -> do_branch(P, i)
          [] nid = "for" -> do_for(P, i)
          [] nid \in Closers -> do_close(P, i)
          [] OTHER -> Goto([P EXCEPT !.log = Append(@, i)], i + 1)

\* EventProperties.test_event as a menu action would misbind it: the run
\* starts one command late
test_event_from_one(strategy) ==
    /\ processor.state \in {"idle", "DONE"}
    /\ processor' = new_processor(commands, 1, strategy)
    /\ ed_obs' = [op |-> "test_event", strategy |-> strategy]
    /\ UNCHANGED <<commands, text_box, truths, roam_vars, query_vars, data_vars>>

\* EventProperties.test_event (event_properties.py:920-926), called with the
\* strategy its Test menu entry binds (event_properties.py:852-856);
\* GAME_ACTIONS.test_event builds the processor of the test run
test_event(strategy) ==
    /\ processor.state \in {"idle", "DONE"}
    /\ LET cursor_position == 0
       IN  processor' = new_processor(commands, cursor_position, strategy)
    /\ ed_obs' = [op |-> "test_event", strategy |-> strategy]
    /\ UNCHANGED <<commands, text_box, truths, roam_vars, query_vars, data_vars>>

\* the game triggers the event: its conditions are read from the game state
trigger_event ==
    /\ processor.state \in {"idle", "DONE"}
    /\ processor' = new_processor(commands, 0, None)
    /\ ed_obs' = [op |-> "trigger_event"]
    /\ UNCHANGED <<commands, text_box, truths, roam_vars, query_vars, data_vars>>

\* the frame's step of a running processor
update_processor ==
    /\ processor.state = "RUNNING"
    /\ processor' = step(processor)
    /\ UNCHANGED <<commands, text_box, ed_obs, truths, roam_vars, query_vars, data_vars>>

\* the free-roam state at rest
NoRoam ==
    /\ roam_unit = None /\ last_move = 0 /\ speed = 0 /\ vspeed = 0 /\ hspeed = 0
    /\ direction = <<0, 0>> /\ ai_targets = <<>>
    /\ unit_pos = Crowded.unit_pos /\ board = BoardOf(Crowded.unit_pos)
    /\ terrain = Crowded.terrain
    /\ roam_speed = 2 /\ level_roam = FALSE /\ level_roam_unit = ""
    /\ regions = <<>> /\ talk = {} /\ state_stack = <<"base">> /\ pc = "away"
    /\ ticks = 0 /\ raised = FALSE /\ obs = NoObs

\* an event of the editor and a game state, before any run
InitRun ==
    /\ commands \in Scripts
    /\ truths \in SUBSET CondIdx(commands)
    /\ processor = [state |-> "idle"]
    /\ text_box = <<>>
    /\ ed_obs = [op |-> "none"]
    /\ NoRoam /\ NoQuery /\ NoData

NextRun ==
    \/ \E strategy \in IfStatementStrategy : test_event(strategy)
    \/ trigger_event
    \/ update_processor
SpecRun == InitRun /\ [][NextRun]_vars

-----------------------------------------------------------------------------
\* Claims about running an event (SpecRun)

\* every opener of cmds is closed by its own kind of closer, and every
\* elif / else stands in an if block before its else
RECURSIVE Balanced(_, _, _)
Balanced(cmds, i, open) ==
    IF i > Len(cmds) THEN open = <<>>
    ELSE LET nid == cmds[i].nid
             top == IF open = <<>> THEN "none" ELSE open[Len(open)]
             rest == SubSeq(open, 1, Len(open) - 1)
         IN  CASE nid \in Openers -> Balanced(cmds, i + 1, Append(open, nid))
               [] nid = "elif" -> top = "if" /\ Balanced(cmds, i + 1, open)
               [] nid = "else" -> top = "if" /\ Balanced(cmds, i + 1, Append(rest, "else"))
               [] nid = "end" -> top \in {"if", "else"} /\ Balanced(cmds, i + 1, rest)
               [] nid = "endf" -> top = "for" /\ Balanced(cmds, i + 1, rest)
               [] OTHER -> Balanced(cmds, i + 1, open)
WellFormed(cmds) == Balanced(cmds, 1, <<>>)

\* What the block structure says of a run of cmds when the conditions of
\* the commands in truth are true: for every command, how often it is
\* executed (runs) and how many if blocks enclose it (depth).  A branch of
\* an if block is live when the block is, no earlier branch of the block
\* was chosen, and it is the else or its condition is true; a for block
\* runs its body ForIters times.
RECURSIVE Scan(_, _, _, _, _)
Scan(cmds, truth, i, open, acc) ==
    IF i > Len(cmds) THEN acc
    ELSE LET nid == cmds[i].nid
             top == IF open = <<>>
                    THEN [live |-> TRUE, outer |-> TRUE, chosen |-> FALSE, mult |-> 1, depth |-> 0]
                    ELSE open[Len(open)]
             rest == SubSeq(open, 1, Len(open) - 1)
             here == [acc EXCEPT ![i] = [runs |-> IF top.live /\ nid \notin ControlNids
                                                  THEN top.mult ELSE 0,
                                         depth |-> top.depth]]
         IN  CASE nid = "if" ->
                    Scan(cmds, truth, i + 1,
                         Append(open, [live |-> top.live /\ i \in truth, outer |-> top.live,
                                       chosen |-> i \in truth, mult |-> top.mult,
                                       depth |-> top.depth + 1]), here)
               [] nid = "elif" ->
                    Scan(cmds, truth, i + 1,
                         Append(rest, [top EXCEPT
                                       !.live = top.outer /\ ~top.chosen /\ i \in truth,
                                       !.chosen = top.chosen \/ i \in truth]), here)
               [] nid = "else" ->
                    Scan(cmds, truth, i + 1,
                         Append(rest, [top EXCEPT !.live = top.outer /\ ~top.chosen,
                                                  !.chosen = TRUE]), here)
               [] nid = "for" ->
                    Scan(cmds, truth, i + 1,
                         Append(open, [live |-> top.live, outer |-> top.live,
                                       chosen |-> FALSE, mult |-> top.mult * ForIters,
                                       depth |-> top.depth]), here)
               [] nid \in Closers -> Scan(cmds, truth, i + 1, rest, here)
               [] OTHER -> Scan(cmds, truth, i + 1, open, here)
Structure(cmds, truth) ==
    Scan(cmds, truth, 1, <<>>, [i \in 1 .. Len(cmds) |-> [runs |-> 0, depth |-> 0]])

\* how often the run executed the command at position i
Runs(i) == Cardinality({k \in 1 .. Len(processor.log) : processor.log[k] = i})

\* a run of a well-formed command sequence has ended
Finished == processor.state = "DONE" /\ WellFormed(processor.commands)

\* the run executed exactly the commands the block structure selects when
\* the conditions in truth are true
RunFollows(truth) ==
    \A i \in 1 .. Len(processor.commands) :
        Runs(i) = Structure(processor.commands, truth)[i].runs

\* C7: in a run of well-formed blocks under the game state's conditions,
\* of every if / elif* / else? / end block exactly one branch body is
\* executed, that of the first if / elif whose condition is true, else that
\* of the else, else none; at every nesting depth.
C7_OneBranchPerBlock ==
    (Finished /\ processor.strategy = None /\ processor.from = 0) => RunFollows(truths)

\* C7 witness: a run took the elif or else branch of an if block nested in
\* another block's branch and passed over some other body
C7_Witness ==
    /\ Finished /\ processor.strategy = None /\ processor.from = 0
    /\ \E i, j \in 1 .. Len(processor.commands) :
          /\ Runs(i) > 0
          /\ Structure(processor.commands, truths)[i].depth >= 2
          /\ i - 1 \in 1 .. Len(processor.commands)
          /\ processor.commands[i - 1].nid \in {"elif", "else"}
          /\ processor.commands[j].nid = "wait" /\ Runs(j) = 0

\* C8: a test run executes the current event's commands from cursor 0 with
\* every evaluated condition true under ALWAYS_TRUE (each if that is reached
\* is taken) and false under ALWAYS_FALSE (no if / elif is taken, an else
\* runs), whatever the game state says of the conditions.
C8_TestRunForcesConditions ==
    (Finished /\ ed_obs.op = "test_event") =>
        /\ processor.commands = commands
        /\ ed_obs.strategy = "ALWAYS_TRUE" => RunFollows(CondIdx(commands))
        /\ ed_obs.strategy = "ALWAYS_FALSE" => RunFollows({})

\* C8 witness: a test run under ALWAYS_FALSE ran an else body although the
\* game state holds the block's if condition true
C8_Witness ==
    /\ Finished /\ ed_obs.op = "test_event" /\ ed_obs.strategy = "ALWAYS_FALSE"
    /\ \E i \in 2 .. Len(commands) :
          /\ commands[i - 1].nid = "else"
          /\ Runs(i) > 0
          /\ \E k \in truths : commands[k].nid = "if"
          /\ ~RunFollows(truths)

-----------------------------------------------------------------------------
\* The event editor: text and commands.  A line of text is a sequence of
\* atoms: Space, Delim, the braces, "#" and words.

\* the most blocks the user types into the text box
MaxBlocks == 3

Space == " "
Delim == ";"
Newline == "\n"

\* the command catalog: nickname, number of keywords and flags of a nid
CatalogNids == ScriptNids \cup {"speak"}
nickname(nid) == IF nid = "speak" THEN "s" ELSE None
keywords(nid) == IF nid \in {"if", "elif", "for", "wait", "speak"} THEN 1 ELSE 0
flags(nid) == IF nid = "speak" THEN <<"no_block">> ELSE <<>>

\* what parse_text_to_command returns for a line it cannot parse
NoCommand == [nid |-> None, values |-> <<>>, flags |-> {}]

\* str.strip: the line without its leading and trailing spaces
RECURSIVE lstrip(_), rstrip(_)
lstrip(line) == IF line # <<>> /\ Head(line) = Space THEN lstrip(Tail(line)) ELSE line
rstrip(line) ==
    IF line # <<>> /\ line[Len(line)] = Space
    THEN rstrip(SubSeq(line, 1, Len(line) - 1)) ELSE line
strip(line) == rstrip(lstrip(line))

\* the line split at the delimiters that stand outside braces
RECURSIVE split_tokens(_, _, _, _, _)
split_tokens(line, i, depth, token, out) ==
    IF i > Len(line) THEN Append(out, token)
    ELSE LET c == line[i]
         IN  IF c = Delim /\ depth = 0
             THEN split_tokens(line, i + 1, depth, <<>>, Append(out, token))
             ELSE split_tokens(line, i + 1,
                               CASE c = "{" -> depth + 1
                                 [] c = "}" /\ depth > 0 -> depth - 1
                                 [] OTHER -> depth,
                               Append(token, c), out)
get_command_arguments(line) == split_tokens(line, 1, 0, <<>>, <<>>)

\* the nid a first token names, by name or by nickname; None for any other
lookup(token) ==
    IF Len(token) # 1 THEN None
    ELSE IF token[1] \in CatalogNids THEN token[1]
    ELSE IF \E nid \in CatalogNids : nickname(nid) = token[1]
    THEN CHOOSE nid \in CatalogNids : nickname(nid) = token[1]
    ELSE None

\* the flags of nid among the tokens after position k, in catalog order
FlagsAfter(nid, args, k) ==
    {f \in {flags(nid)[j] : j \in 1 .. Len(flags(nid))} :
        \E a \in k + 1 .. Len(args) : args[a] = <<f>>}

\* event_commands.parse_text_to_command: the command of a line, no command when
\* the line names no command or lacks a keyword; a line that starts with "#"
\* is a comment
parse_text_to_command(line) ==
    IF line = <<>> THEN NoCommand
    ELSE IF line[1] = "#" THEN [nid |-> "comment", values |-> <<line>>, flags |-> {}]
    ELSE LET tokens == get_command_arguments(line)
             nid == lookup(tokens[1])
             args == Tail(tokens)
         IN  IF nid = None \/ Len(args) < keywords(nid) THEN NoCommand
             ELSE [nid |-> nid,
                   values |-> SubSeq(args, 1, keywords(nid)),
                   flags |-> FlagsAfter(nid, args, keywords(nid))]

RECURSIVE join_values(_)
join_values(values) ==
    IF values = <<>> THEN <<>>
    ELSE <<Delim>> \o Head(values) \o join_values(Tail(values))

RECURSIVE join_flags(_, _)
join_flags(order, active) ==
    IF order = <<>> THEN <<>>
    ELSE (IF Head(order) \in active THEN <<Delim, Head(order)>> ELSE <<>>)
         \o join_flags(Tail(order), active)

\* EventCommand.to_plain_text: the line of source text of a command
to_plain_text(command) ==
    IF command.nid = "comment" THEN command.values[1]
    ELSE <<command.nid>> \o join_values(command.values)
         \o join_flags(flags(command.nid), command.flags)

\* text_changed that parses the blocks as they stand, indentation and all
RECURSIVE parse_blocks_unstripped(_)
parse_blocks_unstripped(blocks) ==
    IF blocks = <<>> THEN <<>>
    ELSE LET line == Head(blocks)
             command == IF line = <<>> THEN NoCommand ELSE parse_text_to_command(line)
         IN  (IF command # NoCommand THEN <<command>> ELSE <<>>)
             \o parse_blocks_unstripped(Tail(blocks))

\* text_changed that gives up at the first line that does not parse
RECURSIVE text_changed_stops(_)
text_changed_stops(blocks) ==
    IF blocks = <<>> THEN <<>>
    ELSE LET line == strip(Head(blocks))
             command == IF line = <<>> THEN NoCommand ELSE parse_text_to_command(line)
         IN  IF line = <<>> THEN text_changed_stops(Tail(blocks))
             ELSE IF command = NoCommand THEN <<>>
             ELSE <<command>> \o text_changed_stops(Tail(blocks))

\* EventProperties.text_changed (event_properties.py:989-999): the commands
\* current.commands holds after the handler, for the blocks of the text box
RECURSIVE text_changed(_)
text_changed(blocks) ==
    IF blocks = <<>> THEN <<>>
    ELSE LET line == strip(Head(blocks))
             command == IF line = <<>> THEN NoCommand ELSE parse_text_to_command(line)
         IN  (IF command # NoCommand THEN <<command>> ELSE <<>>)
             \o text_changed(Tail(blocks))

\* '    ' * num_tabs
RECURSIVE indent(_)
indent(num_tabs) ==
    IF num_tabs <= 0 THEN <<>> ELSE <<Space, Space, Space, Space>> \o indent(num_tabs - 1)

\* convert_text that steps back only after the line of an elif, else, end
\* or endf is written
RECURSIVE convert_text_late(_, _)
convert_text_late(cmds, num_tabs) ==
    IF cmds = <<>> THEN <<>>
    ELSE LET command == Head(cmds)
         IN  IF command # NoCommand
             THEN LET back == IF command.nid \in {"else", "elif", "end", "endf"}
                              THEN num_tabs - 1 ELSE num_tabs
                      after == IF command.nid \in {"if", "elif", "else", "for"}
                               THEN back + 1 ELSE back
                  IN  indent(num_tabs) \o to_plain_text(command) \o <<Newline>>
                      \o convert_text_late(Tail(cmds), after)
             ELSE convert_text_late(Tail(cmds), num_tabs)

\* the text set_current builds (event_properties.py:1021-1032)
RECURSIVE convert_text(_, _)
convert_text(cmds, num_tabs) ==
    IF cmds = <<>> THEN <<>>
    ELSE LET command == Head(cmds)
         IN  IF command # NoCommand
             THEN LET tabs == IF command.nid \in {"else", "elif", "end", "endf"}
                              THEN num_tabs - 1 ELSE num_tabs
                      after == IF command.nid \in {"if", "elif", "else", "for"}
                               THEN tabs + 1 ELSE tabs
                  IN  indent(tabs) \o to_plain_text(command) \o <<Newline>>
                      \o convert_text(Tail(cmds), after)
             ELSE convert_text(Tail(cmds), num_tabs)

\* QPlainTextEdit.setPlainText: the blocks of a text, one per line
RECURSIVE blocks_of(_, _)
blocks_of(text, block) ==
    IF text = <<>> THEN <<block>>
    ELSE IF Head(text) = Newline THEN <<block>> \o blocks_of(Tail(text), <<>>)
    ELSE blocks_of(Tail(text), Append(block, Head(text)))

\* the lines the user may type
TypedLines ==
    { <<"if", Delim, "hp", Space, "<", Space, "5">>,
      <<Space, "s", Delim, "{", "hi", Delim, "you", "}", Delim, "no_block", Space>>,
      <<"speak", Delim, "hello", Delim, "no_block">>,
      <<"else">>,
      <<Space, Space, "end">>,
      <<"#", Space, "a", Delim, "note">>,
      <<"shout", Delim, "hello">>,
      <<"wait">>,
      <<Space>> }

\* the user types a line at the end of the text box; the text box signals
\* textChanged, which runs text_changed (event_properties.py:774)
type_line ==
    /\ Len(text_box) < MaxBlocks
    /\ \E line \in TypedLines :
        /\ text_box' = Append(text_box, line)
        /\ commands' = text_changed(text_box')
        /\ ed_obs' = [op |-> "text_changed"]
    /\ UNCHANGED <<run_vars, roam_vars, query_vars, data_vars>>

\* EventProperties.set_current (event_properties.py:1001-1034) on the event
\* shown: setPlainText signals textChanged, which runs text_changed
set_current ==
    /\ LET text == convert_text(commands, 0)
       IN  /\ text_box' = blocks_of(text, <<>>)
           /\ commands' = text_changed(text_box')
           /\ ed_obs' = [op |-> "set_current", commands |-> commands,
                         text_box |-> text_box]
    /\ UNCHANGED <<run_vars, roam_vars, query_vars, data_vars>>

InitEdit ==
    /\ commands = <<>>
    /\ text_box = <<>>
    /\ ed_obs = [op |-> "none"]
    /\ NoRun /\ NoRoam /\ NoQuery /\ NoData

NextEdit == type_line \/ set_current
SpecEdit == InitEdit /\ [][NextEdit]_vars

-----------------------------------------------------------------------------
\* Claims about the editor's text (SpecEdit)

\* C9: displaying an event with set_current, which renders its commands to
\* indented text and re-parses that text in text_changed, leaves the command
\* sequence as it was: same length, same order, and each command with the
\* same nid, values and flags.
C9_DisplayKeepsCommands ==
    ed_obs.op = "set_current" => commands = ed_obs.commands

\* C9 witness: the event displayed had an if block with a command indented
\* under it, and the text box shows other text than the user had typed
C9_Witness ==
    /\ ed_obs.op = "set_current"
    /\ Len(commands) >= 2
    /\ commands[1].nid = "if"
    /\ commands = ed_obs.commands
    /\ text_box # ed_obs.text_box
    /\ \E b \in 1 .. Len(text_box) : text_box[b] # <<>> /\ text_box[b][1] = Space
    /\ \E c \in 1 .. Len(commands) : commands[c].flags # {}

-----------------------------------------------------------------------------
\* The query engine (query_engine.py).  Its game holds the units of
\* UnitOrder, each on a tile of the map or off the map.

\* game.get_all_units: the units on the map, in the order the game holds them
get_all_units(pos) == SelectSeq(UnitOrder, LAMBDA unit : pos[unit] # NoPos)

\* get_units_in_area that orders the corners by x alone and takes y along
get_units_in_area_by_x(pos, position_corner_1, position_corner_2) ==
    LET swap == position_corner_1[1] > position_corner_2[1]
        c1 == IF swap THEN position_corner_2 ELSE position_corner_1
        c2 == IF swap THEN position_corner_1 ELSE position_corner_2
    IN  SelectSeq(get_all_units(pos),
                  LAMBDA unit : /\ c1[1] <= pos[unit][1] /\ pos[unit][1] <= c2[1]
                                /\ c1[2] <= pos[unit][2] /\ pos[unit][2] <= c2[2])

\* GameQueryEngine.get_units_in_area (query_engine.py:181-203)
get_units_in_area(pos, position_corner_1, position_corner_2) ==
    LET x1 == IF position_corner_1[1] > position_corner_2[1]
              THEN position_corner_2[1] ELSE position_corner_1[1]
        x2 == IF position_corner_1[1] > position_corner_2[1]
              THEN position_corner_1[1] ELSE position_corner_2[1]
        y1 == IF position_corner_1[2] > position_corner_2[2]
              THEN position_corner_2[2] ELSE position_corner_1[2]
        y2 == IF position_corner_1[2] > position_corner_2[2]
              THEN position_corner_1[2] ELSE position_corner_2[2]
    IN  SelectSeq(get_all_units(pos),
                  LAMBDA unit : LET ux == pos[unit][1]
                                    uy == pos[unit][2]
                                IN  x1 <= ux /\ ux <= x2 /\ y1 <= uy /\ uy <= y2)

\* an event script asks for the units of an area
query_units_in_area ==
    /\ q_obs.op = "none"
    /\ \E c1 \in Tiles, c2 \in Tiles :
        q_obs' = [op |-> "get_units_in_area", c1 |-> c1, c2 |-> c2,
                  result |-> get_units_in_area(q_pos, c1, c2)]
    /\ UNCHANGED <<q_pos, q_game, roam_vars, edit_vars, run_vars, data_vars>>

InitQuery ==
    /\ q_pos \in [Units -> Tiles \cup {NoPos}]
    /\ q_game = [loaded |-> FALSE]
    /\ q_obs = [op |-> "none"]
    /\ NoRoam /\ NoEdit /\ NoRun /\ NoData

\* the script has used the answer and goes on
query_answered ==
    /\ q_obs.op # "none"
    /\ q_obs' = [op |-> "none"]
    /\ UNCHANGED <<q_pos, q_game, roam_vars, edit_vars, run_vars, data_vars>>

NextQuery == query_units_in_area \/ query_answered
SpecQuery == InitQuery /\ [][NextQuery]_vars

-----------------------------------------------------------------------------
\* Claims about the query engine (SpecQuery)

Min(a, b) == IF a < b THEN a ELSE b
Max(a, b) == IF a > b THEN a ELSE b

\* tile p lies in the rectangle two opposite corners span, bounds included
InRectangle(p, c1, c2) ==
    /\ Min(c1[1], c2[1]) <= p[1] /\ p[1] <= Max(c1[1], c2[1])
    /\ Min(c1[2], c2[2]) <= p[2] /\ p[2] <= Max(c1[2], c2[2])

\* C10: get_units_in_area returns exactly the units whose position lies in
\* the rectangle the two corners span, bounds included, in the order the
\* game iterates its units, and returns the same for every pair of opposite
\* corners that names the rectangle.
C10_UnitsInAreaExact ==
    q_obs.op = "get_units_in_area" =>
        LET c1 == q_obs.c1
            c2 == q_obs.c2
        IN  /\ q_obs.result =
                  SelectSeq(UnitOrder, LAMBDA unit :
                      q_pos[unit] # NoPos /\ InRectangle(q_pos[unit], c1, c2))
            /\ get_units_in_area(q_pos, c2, c1) = q_obs.result
            /\ get_units_in_area(q_pos, <<c2[1], c1[2]>>, <<c1[1], c2[2]>>) = q_obs.result
            /\ get_units_in_area(q_pos, <<c1[1], c2[2]>>, <<c2[1], c1[2]>>) = q_obs.result

\* C10 witness: the corners were named right-top and left-bottom, two units
\* stand in the rectangle, one of them on its edge, and a third outside
C10_Witness ==
    /\ q_obs.op = "get_units_in_area"
    /\ q_obs.c1[1] > q_obs.c2[1] /\ q_obs.c1[2] < q_obs.c2[2]
    /\ Len(q_obs.result) = 2
    /\ q_pos[q_obs.result[1]] = q_obs.c1
    /\ \E unit \in Units :
          q_pos[unit] # NoPos /\ ~InRectangle(q_pos[unit], q_obs.c1, q_obs.c2)

-----------------------------------------------------------------------------
\* The other lookups of the query engine (query_engine.py:31-280)

\* bounds of the arguments: the largest num and the largest dist a script asks
MaxNum == 3
MaxDist == 2

\* the item objects of the game in the order inventories list them: the
\* instance id (uid) and the catalog nid of each
ItemOrder ==
    <<[uid |-> "u1", nid |-> "Sword"], [uid |-> "u2", nid |-> "Sword"],
      [uid |-> "u3", nid |-> "Potion"]>>

\* what the lookups read of the game besides the positions: each unit's team,
\* tags and skills, the dead units, and where each item is (a unit's
\* inventory, the convoy, or nowhere)
BaseGame ==
    [loaded |-> TRUE,
     team |-> team,
     tags |-> [u \in Units |-> IF u = "Seth" THEN {"Boss"} ELSE {}],
     skills |-> [u \in Units |-> IF u = "Bandit" THEN <<"Poison", "Canto", "Curse">>
                                 ELSE <<"Canto">>],
     negative |-> {"Poison", "Curse"},
     dead |-> {"Bandit"},
     where |-> <<"Eirika", "Bandit", "convoy">>]

\* a lookup returns a value or raises
Ok(v) == [raised |-> FALSE, value |-> v]
Raise == [raised |-> TRUE, value |-> None]

\* query_engine.py:48-54: a position argument is a tile (nid None) or names a
\* unit; a nid of no unit is handed back as it is (<<-1>>, not a position),
\* a unit without position gives None (NoPos)
resolve_pos(pos, a) ==
    IF a.nid = None THEN a.tile
    ELSE IF get_unit(a.nid) # None THEN pos[a.nid]
    ELSE <<-1>>

\* game.get_player_units
get_player_units(G, pos) ==
    SelectSeq(get_all_units(pos), LAMBDA unit : G.team[unit] = "player")

\* sorted(pairs, key=distance): stable, each unit goes before the units of
\* the rest that are not nearer
RECURSIVE sorted_by_distance(_, _)
sorted_by_distance(pairs, k) ==
    IF k > Len(pairs) THEN <<>>
    ELSE LET rest == sorted_by_distance(pairs, k + 1)
             n == Cardinality({i \in 1 .. Len(rest) : rest[i][2] < pairs[k][2]})
         IN  SubSeq(rest, 1, n) \o <<pairs[k]>> \o SubSeq(rest, n + 1, Len(rest))

\* (unit, calculate_distance(unit.position, position)) for the player units
ally_pairs(G, pos, position) ==
    LET players == get_player_units(G, pos)
    IN  [i \in 1 .. Len(players) |->
            <<players[i], calculate_distance(pos[players[i]], position)>>]

\* get_closest_allies that leaves the pairs in iteration order
get_closest_allies_unsorted(G, pos, a, num) ==
    LET position == resolve_pos(pos, a)
        pairs == ally_pairs(G, pos, position)
        last == IF num < 0 THEN Len(pairs) + num
                ELSE IF num < Len(pairs) THEN num ELSE Len(pairs)
    IN  IF get_player_units(G, pos) # <<>> /\ Len(position) # 2 THEN Raise
        ELSE Ok(SubSeq(pairs, 1, last))

\* GameQueryEngine.get_closest_allies (query_engine.py:150-163);
\* calculate_distance raises on a position that is None or a nid, and [:num]
\* keeps the first num pairs, or all but the last -num of them
get_closest_allies(G, pos, a, num) ==
    LET position == resolve_pos(pos, a)
        pairs == sorted_by_distance(ally_pairs(G, pos, position), 1)
        last == IF num < 0 THEN Len(pairs) + num
                ELSE IF num < Len(pairs) THEN num ELSE Len(pairs)
    IN  IF get_player_units(G, pos) # <<>> /\ Len(position) # 2 THEN Raise
        ELSE Ok(SubSeq(pairs, 1, last))

\* GameQueryEngine.get_allies_within_distance (query_engine.py:166-178)
get_allies_within_distance(G, pos, a, dist) ==
    LET position == resolve_pos(pos, a)
    IN  IF get_player_units(G, pos) # <<>> /\ Len(position) # 2 THEN Raise
        ELSE Ok(SelectSeq(ally_pairs(G, pos, position), LAMBDA pair : pair[2] <= dist))

\* unit.items / game.get_convoy_inventory: the items that are at a place
items_at(G, place) ==
    SelectSeq(ItemOrder, LAMBDA it :
        \E i \in 1 .. Len(ItemOrder) : ItemOrder[i] = it /\ G.where[i] = place)

\* GameQueryEngine.get_item (query_engine.py:57-75): the uid of the first
\* item found, None when there is none; unit.items raises on a unit that
\* does not resolve
get_item(G, unit, item) ==
    LET found == SelectSeq(items_at(G, unit), LAMBDA it : it.uid = item \/ it.nid = item)
    IN  IF unit # "convoy" /\ get_unit(unit) = None THEN Raise
        ELSE IF found # <<>> THEN Ok(found[1].uid)
        ELSE Ok(None)

\* has_item that does not look at the units' teams
has_item_any_team(G, pos, item, nid, team_arg, tag) ==
    Ok(\/ \E it \in {ItemOrder[i] : i \in {j \in 1 .. Len(ItemOrder) : G.where[j] = "convoy"}} :
              (nid = "convoy" \/ (nid = None /\ team_arg = "player"))
              /\ (it.nid = item \/ it.uid = item)
       \/ \E unit \in {get_all_units(pos)[i] : i \in 1 .. Len(get_all_units(pos))} :
              /\ nid = None \/ nid = unit
              /\ tag = None \/ tag \in G.tags[unit]
              /\ get_item(G, unit, item).value # None)

\* GameQueryEngine.has_item (query_engine.py:78-115) without a party
has_item(G, pos, item, nid, team_arg, tag) ==
    LET all_units == get_all_units(pos)
        convoy == IF (nid = None \/ nid = "convoy") /\ (nid = "convoy" \/ team_arg = "player")
                  THEN items_at(G, "convoy")
                  ELSE <<>>
    IN  IF \E i \in 1 .. Len(convoy) : convoy[i].nid = item \/ convoy[i].uid = item
        THEN Ok(TRUE)
        ELSE Ok(\E i \in 1 .. Len(all_units) :
                   LET unit == all_units[i]
                   IN  /\ nid = None \/ nid = unit
                       /\ team_arg = None \/ team_arg = G.team[unit]
                       /\ tag = None \/ tag \in G.tags[unit]
                       /\ get_item(G, unit, item).value # None)

\* GameQueryEngine.get_skill (query_engine.py:118-133): unit.skills raises on
\* a unit that does not resolve
get_skill(G, unit, skill) ==
    IF get_unit(unit) = None THEN Raise
    ELSE IF \E i \in 1 .. Len(G.skills[unit]) : G.skills[unit][i] = skill
    THEN Ok(skill)
    ELSE Ok(None)

\* GameQueryEngine.get_units_in_region (query_engine.py:219-247):
\* game.get_region gives None for a nid of no region, and region.contains is
\* called for the first unit that passes the filters
get_units_in_region(G, pos, region, nid, team_arg, tag) ==
    LET passing == SelectSeq(get_all_units(pos), LAMBDA unit :
                       /\ nid = None \/ nid = unit
                       /\ team_arg = None \/ team_arg = G.team[unit]
                       /\ tag = None \/ tag \in G.tags[unit])
    IN  IF region \notin RegionIds
        THEN IF passing # <<>> THEN Raise ELSE Ok(<<>>)
        ELSE Ok(SelectSeq(passing, LAMBDA unit : region_contains(region, pos[unit])))

\* the lookups a script may make: a position is given as a tile or as a unit
\* nid, and "Ghost", "Axe", "Pass" and "Nowhere" name no unit, item, skill
\* or region of the game
Lookups ==
    LET PositionArgs == {[nid |-> None, tile |-> t] : t \in Tiles}
                        \cup {[nid |-> n, tile |-> NoPos] : n \in Units \cup {"Ghost"}}
    IN
    {[op |-> "get_closest_allies", position |-> a, num |-> n] :
        a \in PositionArgs, n \in 0 .. MaxNum}
    \cup {[op |-> "get_allies_within_distance", position |-> a, dist |-> d] :
        a \in PositionArgs, d \in 0 .. MaxDist}
    \cup {[op |-> "has_item", item |-> x, nid |-> n, team |-> t, tag |-> g] :
        x \in {"Sword", "Axe", "u3"}, n \in {None, "convoy", "Eirika", "Ghost"},
        t \in {None, "player", "enemy"}, g \in {None, "Boss"}}
    \cup {[op |-> "get_item", unit |-> u, item |-> x] :
        u \in {"convoy", "Eirika", "Bandit", "Ghost"}, x \in {"Sword", "Axe", "u3"}}
    \cup {[op |-> o, unit |-> u, skill |-> k] :
        o \in {"get_skill", "has_skill"}, u \in {"Eirika", "Bandit", "Ghost"},
        k \in {"Canto", "Pass"}}
    \cup {[op |-> o, unit |-> u] :
        o \in {"get_debuff_count", "is_dead"}, u \in {"Eirika", "Bandit", "Ghost"}}
    \cup {[op |-> o, region |-> r, nid |-> n, team |-> t, tag |-> None] :
        o \in {"get_units_in_region", "any_unit_in_region"}, r \in {"Gate", "Nowhere"},
        n \in {None, "Seth"}, t \in {None, "player"}}
    \cup {[op |-> "get_units_in_area", c1 |-> c1, c2 |-> c2] :
        c1 \in {<<0, 0>>, <<BoardW - 1, BoardH - 1>>}, c2 \in {<<0, 0>>, <<1, 0>>}}

\* the call of a lookup. has_skill (query_engine.py:136-146) and
\* any_unit_in_region (250-267) are bool() of another lookup;
\* get_debuff_count (206-216) counts the negative skills of unit.skills;
\* is_dead (270-280) asks game.check_dead, which answers False for a unit
\* that does not resolve
Call(G, pos, q) ==
    CASE q.op = "get_closest_allies" -> get_closest_allies(G, pos, q.position, q.num)
      [] q.op = "get_allies_within_distance" ->
            get_allies_within_distance(G, pos, q.position, q.dist)
      [] q.op = "has_item" -> has_item(G, pos, q.item, q.nid, q.team, q.tag)
      [] q.op = "get_item" -> get_item(G, q.unit, q.item)
      [] q.op = "get_skill" -> get_skill(G, q.unit, q.skill)
      [] q.op = "has_skill" ->
            IF get_skill(G, q.unit, q.skill).raised THEN Raise
            ELSE Ok(get_skill(G, q.unit, q.skill).value # None)
      [] q.op = "get_debuff_count" ->
            IF get_unit(q.unit) = None THEN Raise
            ELSE Ok(Len(SelectSeq(G.skills[q.unit], LAMBDA sk : sk \in G.negative)))
      [] q.op = "is_dead" -> Ok(get_unit(q.unit) # None /\ q.unit \in G.dead)
      [] q.op = "get_units_in_region" ->
            get_units_in_region(G, pos, q.region, q.nid, q.team, q.tag)
      [] q.op = "any_unit_in_region" ->
            IF get_units_in_region(G, pos, q.region, q.nid, q.team, q.tag).raised THEN Raise
            ELSE Ok(get_units_in_region(G, pos, q.region, q.nid, q.team, q.tag).value # <<>>)
      [] q.op = "get_units_in_area" -> Ok(get_units_in_area(pos, q.c1, q.c2))

\* a script makes a lookup
query_lookup ==
    /\ q_obs.op = "none"
    /\ \E q \in Lookups : \E r \in {Call(q_game, q_pos, q)} :
        q_obs' = [op |-> q.op, args |-> q, raised |-> r.raised, result |-> r.value]
    /\ UNCHANGED <<q_pos, q_game, roam_vars, edit_vars, run_vars, data_vars>>

\* the games the lookups are made on: every placement of the units, all of
\* them or two of them of team player, and every placement of the items with
\* the units on the map or one of them off it
InitLookup ==
    /\ \/ /\ q_pos \in [Units -> Tiles \cup {NoPos}]
          /\ q_game \in {[BaseGame EXCEPT !.team = t] :
                            t \in {[u \in Units |-> "player"],
                                   [team EXCEPT !["Bandit"] = "player"]}}
       \/ /\ q_pos \in {[[u \in Units |-> <<0, 0>>] EXCEPT ![off] = NoPos] : off \in Units}
                       \cup {[u \in Units |-> <<0, 0>>]}
          /\ q_game \in {[BaseGame EXCEPT !.where = w] :
                            w \in [1 .. Len(ItemOrder) -> Units \cup {"convoy", "nowhere"}]}
    /\ q_obs = [op |-> "none"]
    /\ NoRoam /\ NoEdit /\ NoRun /\ NoData

NextLookup == query_lookup \/ query_answered
SpecLookup == InitLookup /\ [][NextLookup]_vars

-----------------------------------------------------------------------------
\* Claims about the lookups (SpecLookup)

\* the player units the game lists, and the place of a unit in game.units
PlayerUnits == {u \in Units : q_pos[u] # NoPos /\ q_game.team[u] = "player"}
OrderOf(u) == CHOOSE i \in 1 .. Len(UnitOrder) : UnitOrder[i] = u

Named(x) == {i \in 1 .. Len(ItemOrder) : ItemOrder[i].nid = x \/ ItemOrder[i].uid = x}

\* C12: has_item(X, team='player') without nid, tag or party is True exactly
\* when the convoy, or the inventory of a unit of team 'player' that the game
\* lists, holds an item whose nid or uid is X; items of other teams' units
\* do not count.
C12_HasItemOfPlayers ==
    (/\ q_obs.op = "has_item"
     /\ q_obs.args.nid = None /\ q_obs.args.team = "player" /\ q_obs.args.tag = None) =>
        /\ ~q_obs.raised
        /\ q_obs.result = (\E i \in Named(q_obs.args.item) :
                              \/ q_game.where[i] = "convoy"
                              \/ q_game.where[i] \in PlayerUnits)

\* C12 witness: X names two items, both in the inventory of an enemy unit on
\* the map, and the answer is False
C12_Witness ==
    /\ q_obs.op = "has_item"
    /\ q_obs.args.nid = None /\ q_obs.args.team = "player" /\ q_obs.args.tag = None
    /\ Cardinality(Named(q_obs.args.item)) = 2
    /\ \A i \in Named(q_obs.args.item) :
          q_game.where[i] = "Bandit" /\ q_pos["Bandit"] # NoPos
    /\ q_obs.result = FALSE

\* the lookup was given a unit, item, skill or region that does not resolve,
\* or a unit that has no position
Unresolved(q) ==
    \/ q.op \in {"get_closest_allies", "get_allies_within_distance"}
          /\ q.position.nid # None
          /\ (get_unit(q.position.nid) = None \/ q_pos[q.position.nid] = NoPos)
    \/ q.op \in {"get_item", "get_skill", "has_skill", "get_debuff_count", "is_dead"}
          /\ q.unit # "convoy" /\ get_unit(q.unit) = None
    \/ q.op \in {"get_item", "has_item"} /\ Named(q.item) = {}
    \/ q.op = "has_item" /\ q.nid \notin {None, "convoy"} /\ get_unit(q.nid) = None
    \/ q.op \in {"get_skill", "has_skill"} /\ q.skill \notin {"Canto", "Poison", "Curse"}
    \/ q.op \in {"get_units_in_region", "any_unit_in_region"} /\ q.region \notin RegionIds
    \/ q.op = "get_units_in_area" /\ \E u \in Units : q_pos[u] = NoPos

\* C13: a lookup whose unit, item, skill or region does not resolve, or
\* that meets a unit without position, returns an empty result, None or
\* False and does not raise.
C13_LookupsDegrade ==
    (q_obs.op # "none" /\ Unresolved(q_obs.args)) => ~q_obs.raised

-----------------------------------------------------------------------------
\* can_talk and can_visit on their own (roam_state.py:283-312): the roam
\* state holds a unit, or none, and the units stand at chosen places

\* off the map, on a tile, three fifths of a tile to its right or below it,
\* and on the next tile
TalkSpots ==
    {NoPos, <<0, 0>>, <<(3 * Scale) \div 5, 0>>, <<0, (3 * Scale) \div 5>>, <<Scale, 0>>}

InitSelect ==
    /\ roam_unit \in Units \cup {None}
    /\ unit_pos \in [Units -> TalkSpots]
    /\ roam_unit # None => unit_pos[roam_unit] # NoPos
    /\ \A u, v \in Units \ {roam_unit} :
          u # v /\ unit_pos[u] # NoPos => unit_pos[u] # unit_pos[v]
    /\ board = BoardOf([u \in Units |-> IF u = roam_unit THEN NoPos ELSE unit_pos[u]])
    /\ regions \in {<<"Village">>, <<"Trap", "Village">>, <<"Gate", "Trap", "Village">>,
                    <<"Trap", "Gate", "Village">>}
    /\ last_move = 0 /\ speed = 0 /\ vspeed = 0 /\ hspeed = 0
    /\ direction = <<0, 0>> /\ ai_targets = <<>>
    /\ terrain = AllPassable
    /\ roam_speed = 2 /\ level_roam = TRUE /\ level_roam_unit = "Eirika"
    /\ talk = {<<"Eirika", "Seth">>, <<"Seth", "Eirika">>, <<"Eirika", "Bandit">>}
    /\ state_stack = <<"base", "free_roam">> /\ pc = "input"
    /\ ticks = 0 /\ raised = FALSE /\ obs = NoObs
    /\ NoEdit /\ NoRun /\ NoQuery /\ NoData

\* roam_state.py:157-158: other_unit = self.can_talk(); region =
\* self.can_visit(), with what evaluate.evaluate does with the condition
check_select ==
    /\ ~raised
    /\ pc = "input"
    /\ \E truth \in {"true", "false", "raise"} :
        obs' = [NoObs EXCEPT !.op = "select", !.truth = truth,
                             !.talked = can_talk(World),
                             !.visited = can_visit(World, truth)]
    /\ UNCHANGED <<roam_unit, last_move, speed, vspeed, hspeed, direction, ai_targets,
                   unit_pos, board, terrain, roam_speed, level_roam, level_roam_unit,
                   regions, talk, state_stack, pc, ticks, raised>>
    /\ UNCHANGED <<edit_vars, run_vars, query_vars, data_vars>>

NextSelect == check_select \/ take_input(Inputs, MaxCtlTicks)
SpecSelect == InitSelect /\ [][NextSelect]_vars

-----------------------------------------------------------------------------
\* Claims about can_talk and can_visit (SpecSelect)

\* the units the roam unit can talk to, and how far each is
TalkDistance(u) == calculate_distance(unit_pos[roam_unit], unit_pos[u])
Near ==
    {u \in Units : /\ roam_unit # None
                   /\ unit_pos[u] # NoPos
                   /\ u # roam_unit
                   /\ TalkDistance(u) < Scale}

\* C14: can_talk returns a unit only if the unit has a position, is not the
\* roam unit and is strictly less than one tile from the roam unit; of these
\* it returns one at minimal distance, the first in game.units order on a
\* tie; it returns None when there is no such unit or no roam unit.
C14_TalkToNearest ==
    obs.op = "select" =>
        /\ obs.talked # None =>
              /\ obs.talked \in Near
              /\ \A u \in Near :
                    \/ TalkDistance(obs.talked) < TalkDistance(u)
                    \/ /\ TalkDistance(obs.talked) = TalkDistance(u)
                       /\ OrderOf(obs.talked) <= OrderOf(u)
        /\ obs.talked = None <=> Near = {}

\* C14 witness: two units at the same distance under one tile, the first of
\* them in game.units order is returned
C14_Witness ==
    /\ obs.op = "select"
    /\ Cardinality(Near) = 2
    /\ \A u, v \in Near : TalkDistance(u) = TalkDistance(v) /\ TalkDistance(u) > 0
    /\ obs.talked \in Near

\* C15: can_visit returns a region only when there is a roam unit, the
\* region is the one under the roam unit's rationalized position, it is an
\* EVENT region and its condition evaluates true; when the evaluation raises,
\* can_visit returns None, nothing is raised and take_input fires no trigger
\* for the region.
C15_VisitNeedsTrueCondition ==
    /\ obs.op = "select" =>
          /\ obs.visited # None =>
                /\ roam_unit # None
                /\ region_contains(obs.visited, RoundPos(unit_pos[roam_unit]))
                /\ RegionDef[obs.visited].region_type = "event"
                /\ obs.truth = "true"
          /\ obs.truth = "raise" => obs.visited = None
    /\ (obs.op = "take_input" /\ obs.active /\ obs.truth = "raise") =>
          /\ "region" \notin obs.tried
          /\ "roaming_interrupt" \notin obs.tried => obs.result # "raise"
          /\ \A hit \in obs.hits : RegionDef[hit[1]].interrupt_move

\* C15 witness: SELECT is pressed on an EVENT region with nobody to talk to,
\* the condition raises, and the tick ends without a trigger
C15_Witness ==
    /\ obs.op = "take_input" /\ obs.active /\ obs.truth = "raise"
    /\ roam_unit # None
    /\ Near = {}
    /\ get_region_under_pos(regions, RoundPos(unit_pos[roam_unit])) = "Village"
    /\ obs.tried = {}
    /\ obs.result = "none"

-----------------------------------------------------------------------------
\* Claims about the regions of a tick (SpecRoam)

\* C16: when an interrupt_move region holds the roam unit's rounded position
\* and another unit occupies that tile, the occupant is moved to the nearest
\* open tile before roaming_interrupt fires, so that the trigger fires with
\* the roam unit still on its tile and no other unit on it.
C16_OccupantMakesRoom ==
    (obs.op = "take_input" /\ obs.active) =>
        \A e \in obs.intr :
            e.occupant # None =>
                /\ e.pos[e.occupant] # TilePos(e.tile)
                /\ e.pos[e.occupant] =
                      TilePos(get_nearest_open_tile(e.board, terrain, e.tile))
                /\ RoundPos(e.pos[e.roam_unit]) = e.tile
                /\ board_get_unit(e.board, e.tile) = None

\* the regions of a sequence
RegionsOf(regs) == {regs[i] : i \in 1 .. Len(regs)}

\* C17: a take_input tick removes a region exactly when the region is
\* only_once and a trigger fired for it in the tick (roaming_interrupt, or
\* its sub_nid on SELECT) returned True; every other region of the level is
\* still there after the tick.
C17_RemovedIffOnceAndFired ==
    (obs.op = "take_input" /\ obs.active) =>
        /\ RegionsOf(regions) \subseteq RegionsOf(obs.regions0)
        /\ \A r \in RegionsOf(obs.regions0) :
              r \notin RegionsOf(regions) <=>
                  (RegionDef[r].only_once /\ <<r, TRUE>> \in obs.hits)

\* C17 witness: the roaming_interrupt of an only_once region returned True
\* and the tick removed that region and no other
C17_Witness ==
    /\ obs.op = "take_input" /\ obs.active
    /\ obs.result = "none"
    /\ \E r \in RegionsOf(obs.regions0) :
          /\ RegionDef[r].only_once /\ RegionDef[r].interrupt_move
          /\ <<r, TRUE>> \in obs.hits
          /\ RegionsOf(regions) = RegionsOf(obs.regions0) \ {r}
    /\ Len(regions) = 2

\* ---------------------------------------------------------------------
\* Event Definitions in the editor: name, scope and identifier
\* (event_properties.py:928-962)
\* ---------------------------------------------------------------------

\* DB.levels, in the order of the level box (event_properties.py:811)
Levels == <<"L1", "L2">>

\* what the name box can hold: a typed text, here by its base and the
\* number get_next_name appended (0: nothing appended)
Typed == {[base |-> b, n |-> 0] : b \in {"", "A", "B"}}

\* EventPrefab.nid: None (here <<>>) without a name, else the scope, "Global"
\* when level_nid is None, followed by the name
nid_of(d) ==
    IF d.name = [base |-> "", n |-> 0] THEN <<>>
    ELSE <<IF d.level_nid = None THEN "Global" ELSE d.level_nid, d.name>>

\* get_next_name that hands the name back
get_next_name_same(name, names) == name

\* str_utils.get_next_name: the name when it is free, else the name with the
\* first free number appended
get_next_name(name, names) ==
    IF name \notin names THEN name
    ELSE LET free == {k \in 1 .. Cardinality(names) + 1 :
                          [base |-> name.base, n |-> k] \notin names}
         IN  [base |-> name.base, n |-> CHOOSE k \in free : \A j \in free : k <= j]

\* event_properties.py:934-940 on the events `events` with `cur` current
name_done_editing(events, cur) ==
    LET idx == DOMAIN events
        other_nids == {nid_of(events[i]) : i \in idx \ {cur}}
        other_names == {events[i].name :
                           i \in {j \in idx \ {cur} :
                                      events[j].level_nid = events[cur].level_nid}}
    IN  IF nid_of(events[cur]) \in other_nids
        THEN [events EXCEPT ![cur].name = get_next_name(@, other_names)]
        ELSE events

\* the event list the editor opens with: identifiers unique in each scope
InitNames ==
    /\ ed_data \in {[current |-> c, events |-> ev, editing |-> FALSE, op |-> "open"] :
                       c \in 1 .. 3,
                       ev \in {<<[name |-> [base |-> "A", n |-> 0], level_nid |-> None],
                                 [name |-> [base |-> "B", n |-> 0], level_nid |-> None],
                                 [name |-> [base |-> "A", n |-> 0], level_nid |-> "L1"]>>,
                               <<[name |-> [base |-> "A", n |-> 0], level_nid |-> "L1"],
                                 [name |-> [base |-> "B", n |-> 0], level_nid |-> "L1"],
                                 [name |-> [base |-> "", n |-> 0], level_nid |-> "L2"]>>}}
    /\ db = [op |-> "none"]
    /\ NoView
    /\ NoRoam /\ NoEdit /\ NoRun /\ NoQuery

\* event_properties.py:928-930: a keystroke in the name box
ev_name_changed ==
    /\ \E text \in Typed :
        /\ text # ed_data.events[ed_data.current].name
        /\ ed_data' = [ed_data EXCEPT !.events[ed_data.current].name = text,
                                      !.editing = TRUE, !.op = "name_changed"]
    /\ UNCHANGED <<db, fg, bg, roam_vars, edit_vars, run_vars, query_vars>>

\* event_properties.py:802, 932-941: editingFinished of the name box
ev_name_done_editing ==
    /\ ed_data.editing
    /\ ed_data' = [ed_data EXCEPT
                      !.events = name_done_editing(ed_data.events, ed_data.current),
                      !.editing = FALSE, !.op = "name_done_editing"]
    /\ UNCHANGED <<db, fg, bg, roam_vars, edit_vars, run_vars, query_vars>>

\* event_properties.py:953-962: the level box changed to index idx
ev_level_nid_changed ==
    /\ \E idx \in 0 .. Len(Levels) :
        LET level_nid == IF idx = 0 THEN None ELSE Levels[idx]
            moved == [ed_data.events EXCEPT ![ed_data.current].level_nid = level_nid]
        IN  /\ level_nid # ed_data.events[ed_data.current].level_nid
            /\ ed_data' = [ed_data EXCEPT
                              !.events = name_done_editing(moved, ed_data.current),
                              !.editing = FALSE, !.op = "level_nid_changed"]
    /\ UNCHANGED <<db, fg, bg, roam_vars, edit_vars, run_vars, query_vars>>

\* event_properties.py:1001-1003: another event of the list becomes current;
\* the name box has lost the focus by then, so no edit is pending
ev_set_current ==
    /\ ~ed_data.editing
    /\ \E c \in DOMAIN ed_data.events :
        /\ c # ed_data.current
        /\ ed_data' = [ed_data EXCEPT !.current = c, !.op = "set_current"]
    /\ UNCHANGED <<db, fg, bg, roam_vars, edit_vars, run_vars, query_vars>>

NextNames ==
    ev_name_changed \/ ev_name_done_editing \/ ev_level_nid_changed \/ ev_set_current
SpecNames == InitNames /\ [][NextNames]_vars

\* the events other than the current one in the current one's scope
SameScope ==
    {i \in DOMAIN ed_data.events \ {ed_data.current} :
        ed_data.events[i].level_nid = ed_data.events[ed_data.current].level_nid}

\* C18: after name_done_editing, run by the name box or by
\* level_nid_changed, the identifier of the current Event Definition differs
\* from the identifier of every other Event Definition of its scope, whatever
\* renames and level changes came before.
C18_IdentifierUniqueInScope ==
    ed_data.op \in {"name_done_editing", "level_nid_changed"} =>
        \A i \in SameScope :
            nid_of(ed_data.events[i]) # nid_of(ed_data.events[ed_data.current])

\* C18 witness: a level change brought the current event into a scope that
\* held its name already, and name_done_editing gave it a numbered name
C18_Witness ==
    /\ ed_data.op = "level_nid_changed"
    /\ ed_data.events[ed_data.current].name.n > 0
    /\ \E i \in SameScope :
          ed_data.events[i].name.base = ed_data.events[ed_data.current].name.base

\* ---------------------------------------------------------------------
\* Item prefabs: save and restore of the component list (items.py:42-73)
\* ---------------------------------------------------------------------

\* the component classes item_component_access knows, in catalog order
CompOrder == <<"A", "B", "C">>
Comps == {CompOrder[i] : i \in 1 .. Len(CompOrder)}

\* the nids of a sequence of components
NidsOf(components) == {components[i].nid : i \in 1 .. Len(components)}

\* what stands for None where a component is expected
NoComponent == [nid |-> None, value |-> None]

\* ICA.restore_component((nid, value)): the component, None for a nid the
\* catalog does not hold
restore_component(val) ==
    IF val[1] \in Comps THEN [nid |-> val[1], value |-> val[2]] ELSE NoComponent

\* Data.append: a value whose nid the Data holds already is not added
data_append(data, c) ==
    IF c.nid \in NidsOf(data) THEN data ELSE Append(data, c)

\* items.py:65-68 for the paired nids `paired` of one component
RECURSIVE add_paired(_, _, _)
add_paired(all_components, components, paired) ==
    IF paired = <<>> THEN all_components
    ELSE LET paired_nid == Head(paired)
         IN  IF paired_nid \in NidsOf(components)
             THEN add_paired(all_components, components, Tail(paired))
             ELSE add_paired(data_append(all_components,
                                 restore_component(<<paired_nid, "default">>)),
                             components, Tail(paired))

\* items.py:62-68 from the i-th restored component on
RECURSIVE restore_from(_, _, _, _)
restore_from(paired_with, components, i, all_components) ==
    IF i > Len(components) THEN all_components
    ELSE LET component == components[i]
             paired == SelectSeq(CompOrder,
                                 LAMBDA n : n \in paired_with[component.nid])
         IN  restore_from(paired_with, components, i + 1,
                          add_paired(data_append(all_components, component),
                                     components, paired))

\* ItemPrefab.restore (items.py:52-73): the components of the restored item
restore(paired_with, dat) ==
    LET restored == [i \in 1 .. Len(dat) |-> restore_component(dat[i])]
        components == SelectSeq(restored, LAMBDA c : c # NoComponent)
    IN  restore_from(paired_with, components, 1, <<>>)

\* how often restore builds new_paired for each nid (items.py:64-68): once
\* for every component of the data that names a nid the data does not hold
synthesized(paired_with, dat) ==
    LET restored == [i \in 1 .. Len(dat) |-> restore_component(dat[i])]
        components == SelectSeq(restored, LAMBDA c : c # NoComponent)
    IN  [paired_nid \in Comps |->
            IF paired_nid \in NidsOf(components) THEN 0
            ELSE Cardinality({i \in 1 .. Len(components) :
                                paired_nid \in paired_with[components[i].nid]})]

\* ItemPrefab.save (items.py:42-50): 'components' of the serial dict
save(components) ==
    [i \in 1 .. Len(components) |-> <<components[i].nid, components[i].value>>]

\* serialized component lists: up to three different nids, one of them
\* unknown to the catalog
SerialLists ==
    LET nids == Comps \cup {"Old"}
        one == {<<<<a, "custom">>>> : a \in nids}
        two == {<<<<a, "custom">>, <<b, "custom">>>> : a \in nids, b \in nids}
        three == {<<<<a, "custom">>, <<b, "custom">>, <<c, "custom">>>> :
                      a \in nids, b \in nids, c \in nids}
    IN  {<<>>} \cup one \cup {d \in two : d[1][1] # d[2][1]}
               \cup {d \in three : Cardinality({d[1][1], d[2][1], d[3][1]}) = 3}

\* a component catalog (no class is paired with itself) and the data of one
\* item on disk
InitItems ==
    /\ db \in {[op |-> "stored", paired_with |-> pw, dat |-> d,
                components |-> <<>>, first |-> <<>>, loads |-> 0,
                made |-> [n \in Comps |-> 0]] :
                  pw \in {f \in [Comps -> SUBSET Comps] : \A c \in Comps : c \notin f[c]},
                  d \in SerialLists}
    /\ ed_data = [current |-> 0]
    /\ NoView
    /\ NoRoam /\ NoEdit /\ NoRun /\ NoQuery

\* the project is loaded: ItemPrefab.restore(dat)
item_restore ==
    /\ db.op = "stored"
    /\ db.loads < 2
    /\ \E all_components \in {restore(db.paired_with, db.dat)} :
        db' = [db EXCEPT !.op = "restore",
                         !.components = all_components,
                         !.made = synthesized(db.paired_with, db.dat),
                         !.first = IF db.loads = 0 THEN all_components ELSE @,
                         !.loads = @ + 1]
    /\ UNCHANGED <<ed_data, fg, bg, roam_vars, edit_vars, run_vars, query_vars>>

\* the project is saved: ItemPrefab.save()
item_save ==
    /\ db.op = "restore"
    /\ db' = [db EXCEPT !.op = "stored", !.dat = save(db.components)]
    /\ UNCHANGED <<ed_data, fg, bg, roam_vars, edit_vars, run_vars, query_vars>>

NextItems == item_restore \/ item_save
SpecItems == InitItems /\ [][NextItems]_vars

\* every paired nid of every component of the item is a component of the item
PairsPresent(components) ==
    \A i \in 1 .. Len(components) :
        db.paired_with[components[i].nid] \subseteq NidsOf(components)

\* C19: after ItemPrefab.restore every nid a component of the item names in
\* paired_with is among the item's components, and restoring what the
\* restored item saves gives the same components again.
C19_PairsCompleteAndIdempotent ==
    db.op = "restore" =>
        /\ PairsPresent(db.components)
        /\ db.loads = 2 => db.components = db.first

\* ---------------------------------------------------------------------
\* Showing an event: the indentation of the text set_current builds
\* (event_properties.py:1019-1034)
\* ---------------------------------------------------------------------

\* a command as text_changed parsed it: its keyword has a value
Parsed(command) ==
    [command EXCEPT !.values = IF keywords(command.nid) = 1 THEN <<<<"x">>>> ELSE <<>>]

\* the editor is about to show an event: any of the command sequences of
\* Scripts, the text box still empty
InitShow ==
    /\ commands \in {[i \in 1 .. Len(s) |-> Parsed(s[i])] : s \in Scripts}
    /\ text_box = <<>>
    /\ ed_obs = [op |-> "none"]
    /\ NoRun /\ NoRoam /\ NoQuery /\ NoData

NextShow == set_current
SpecShow == InitShow /\ [][NextShow]_vars

\* the nesting depth of the i-th command: openers before it, minus closers
\* up to and with it, minus one for an elif or else
DepthAt(cmds, i) ==
    Cardinality({k \in 1 .. i - 1 : cmds[k].nid \in {"if", "for"}})
    - Cardinality({k \in 1 .. i : cmds[k].nid \in {"end", "endf"}})
    - (IF cmds[i].nid \in {"elif", "else"} THEN 1 ELSE 0)

\* the depth after the last command
DepthAfter(cmds) ==
    Cardinality({k \in 1 .. Len(cmds) : cmds[k].nid \in {"if", "for"}})
    - Cardinality({k \in 1 .. Len(cmds) : cmds[k].nid \in {"end", "endf"}})

\* the spaces a block starts with
LeadingSpaces(block) == Len(block) - Len(lstrip(block))

\* C20: the text set_current produces has one line per command, the command's
\* plain text behind 4 spaces for each level of its nesting depth (no spaces
\* for a depth below 0); the depth follows from the if / elif / else / for /
\* end / endf commands before the line alone, elif, else, end and endf being
\* printed at the depth of their opener; for a well-nested command sequence
\* no depth is negative and the depth after the last command is 0.
C20_IndentFollowsNesting ==
    ed_obs.op = "set_current" =>
        LET cmds == ed_obs.commands
        IN  /\ Len(text_box) = Len(cmds) + 1
            /\ text_box[Len(text_box)] = <<>>
            /\ \A i \in 1 .. Len(cmds) :
                  /\ lstrip(text_box[i]) = to_plain_text(cmds[i])
                  /\ LeadingSpaces(text_box[i]) =
                        IF DepthAt(cmds, i) < 0 THEN 0 ELSE 4 * DepthAt(cmds, i)
            /\ WellFormed(cmds) =>
                  /\ \A i \in 1 .. Len(cmds) : DepthAt(cmds, i) >= 0
                  /\ DepthAfter(cmds) = 0

\* C20 witness: an event with an else and a block nested in a block was
\* shown; a line stands 8 spaces in and the line of the else none
C20_Witness ==
    /\ ed_obs.op = "set_current"
    /\ WellFormed(ed_obs.commands)
    /\ \E i, j \in 1 .. Len(ed_obs.commands) :
          /\ LeadingSpaces(text_box[i]) = 8
          /\ ed_obs.commands[j].nid = "else"
          /\ LeadingSpaces(text_box[j]) = 0
          /\ j > 1 /\ LeadingSpaces(text_box[j - 1]) = 4

\* ---------------------------------------------------------------------
\* Editing the text of an event (event_properties.py:774, 989-999)
\* ---------------------------------------------------------------------

\* the user replaces a line of the text box by another, or by nothing; the
\* text box signals textChanged, which runs text_changed
edit_line ==
    /\ \E b \in 1 .. Len(text_box), line \in TypedLines \cup {<<>>} :
        /\ line # text_box[b]
        /\ text_box' = [text_box EXCEPT ![b] = line]
        /\ commands' = text_changed(text_box')
        /\ ed_obs' = [op |-> "text_changed", before |-> Len(commands)]
    /\ UNCHANGED <<run_vars, roam_vars, query_vars, data_vars>>

NextType == type_line \/ edit_line
SpecType == InitEdit /\ [][NextType]_vars

\* what each block of the text box parses to, blank and unparsable blocks
\* giving no command
ParsedBlocks ==
    [b \in 1 .. Len(text_box) |-> parse_text_to_command(strip(text_box[b]))]

\* C21: after text_changed the command list of the event holds, in document
\* order, the command of every block of the text box that is not blank and
\* parses once its leading and trailing spaces are off, and nothing else: a
\* blank block and a block that does not parse give no command and stop nothing,
\* and no command of the earlier text is kept.
C21_CommandsAreParsedLines ==
    ed_obs.op = "text_changed" =>
        commands = SelectSeq(ParsedBlocks, LAMBDA c : c # NoCommand)

\* C21 witness: an edit made a line unparsable that had given a command; the
\* command is gone, and a later line, typed with spaces around it, still
\* gives its command
C21_Witness ==
    /\ ed_obs.op = "text_changed"
    /\ "before" \in DOMAIN ed_obs
    /\ Len(commands) < ed_obs.before
    /\ \E b \in 1 .. Len(text_box) - 1 :
          /\ strip(text_box[b]) # <<>>
          /\ ParsedBlocks[b] = NoCommand
          /\ ParsedBlocks[b + 1] # NoCommand
          /\ text_box[b + 1] # strip(text_box[b + 1])
          /\ commands[Len(commands)] = ParsedBlocks[b + 1]

\* C22: on SELECT talking comes before visiting.  When can_talk gave a unit,
\* on_talk is the only trigger the handler attempts, whatever it returns, and
\* no region trigger is fired by the handler; the region's sub_nid trigger is
\* attempted only when can_talk gave no unit and can_visit gave a region; the
\* talk pair of the roam unit and the other unit is removed exactly when
\* on_talk returned True, and no other pair is.
C22_TalkBeforeVisit ==
    (obs.op = "take_input" /\ obs.active /\ obs.truth # "none") =>
        /\ obs.talked # None =>
              /\ "on_talk" \in obs.tried
              /\ "region" \notin obs.tried
              /\ \A h \in obs.hits : RegionDef[h[1]].interrupt_move
        /\ "region" \in obs.tried => obs.talked = None /\ obs.visited # None
        /\ "on_talk" \in obs.tried => obs.talked # None
        /\ talk = IF "on_talk" \in obs.fired
                  THEN obs.talk0 \ {<<obs.pre_unit, obs.talked>>}
                  ELSE obs.talk0

\* C22 witness: a unit to talk to and a region to visit were both there,
\* on_talk returned False, and nothing else was attempted: the region is
\* still in the level and the talk pair still stands
C22_Witness ==
    /\ obs.op = "take_input" /\ obs.active /\ obs.truth = "true"
    /\ obs.talked # None /\ obs.visited # None
    /\ obs.tried = {"on_talk"} /\ obs.fired = {}
    /\ <<obs.pre_unit, obs.talked>> \in talk
    /\ regions = obs.regions0

\* C23: no step of a take_input call uses the roam unit after the call has
\* cleared it: once a trigger was consumed and the unit rationalized, no
\* further roaming_interrupt, no INFO or START trigger and no second
\* rationalize takes self.roam_unit, which is None by then.
C23_ClearedUnitNotUsed ==
    obs.op = "take_input" => obs.cleared = {}

\* the unit stands on a tile and the board holds it there
OnBoard(u) ==
    /\ unit_pos[u] = TilePos(RoundPos(unit_pos[u]))
    /\ board_get_unit(board, RoundPos(unit_pos[u])) = u

\* C24: whenever begin returns 'repeat' the roam state holds no unit any
\* more and every unit that has a position is on the board, also when the
\* roam unit it held has no position.
C24_ExitLeavesNoUnitRoaming ==
    (obs.op = "begin" /\ obs.result = "repeat") =>
        /\ roam_unit = None
        /\ \A u \in Units : unit_pos[u] # NoPos => OnBoard(u)

\* C25: begin hands game.leave a unit that exists; when the level names a
\* roam unit that resolves to no unit while another unit is held, begin
\* rationalizes the held unit and leaves the state with 'repeat'.
C25_LeaveOnlyExistingUnit ==
    obs.op = "begin" =>
        /\ "game.leave" \notin obs.cleared
        /\ (obs.pre_roam /\ obs.pre_unit # None /\ level_roam_unit # ""
              /\ Designated = None) =>
                 /\ obs.pre_unit \in obs.ratted
                 /\ obs.result = "repeat"

\* ---------------------------------------------------------------------
\* The roam unit's direction once the keys are released
\* (roam_state.py:80-129, 194-201)
\* ---------------------------------------------------------------------

\* the roam state holds Eirika again after a consumed trigger: rationalize
\* reset the speeds and last_move and left the direction as it was
\* (roam_state.py:268-273)
InitDecay ==
    /\ roam_unit = "Eirika"
    /\ direction \in {<<0, 0>>, <<PushDir, 0>>, <<-PushDir, PushDir>>, <<2, -3>>}
    /\ last_move = 0 /\ speed = 0 /\ vspeed = 0 /\ hspeed = 0
    /\ ai_targets = <<>>
    /\ terrain = AllPassable
    /\ unit_pos = [Crowded.unit_pos EXCEPT !["Eirika"] = TilePos(<<1, 1>>)]
    /\ board = BoardOf([unit_pos EXCEPT !["Eirika"] = NoPos])
    /\ regions = <<"Village">>
    /\ roam_speed = 2 /\ level_roam = TRUE /\ level_roam_unit = "Eirika"
    /\ talk = {} /\ state_stack = <<"base", "free_roam">> /\ pc = "input"
    /\ ticks = 0 /\ raised = FALSE /\ obs = NoObs
    /\ NoEdit /\ NoRun /\ NoQuery /\ NoData

\* the keys of a player who pushes, taps and lets go
DecayInputs ==
    { [held |-> {}, just |-> {}, event |-> "NONE"],
      [held |-> {"RIGHT", "BACK"}, just |-> {}, event |-> "NONE"],
      [held |-> {}, just |-> {"UP"}, event |-> "NONE"] }

NextDecay == take_input(DecayInputs, MaxTicks) \/ update({})
SpecDecay == InitDecay /\ [][NextDecay]_vars

\* d one step nearer to 0
TowardZero(d) == IF d > 0 THEN d - 1 ELSE IF d < 0 THEN d + 1 ELSE 0

\* C26: both direction components stay within -5 .. 5; a take_input tick
\* without direction key and without consumed trigger leaves each component
\* one step nearer to 0 than it found it; when the fifth such tick in a row,
\* and every later one, returns, both components are 0, hspeed and vspeed
\* are 0 and the tick has left the roam unit where it was.
C26_DirectionDecays ==
    /\ \A i \in 1 .. 2 : direction[i] \in -PushDir .. PushDir
    /\ (obs.op = "take_input" /\ pc = "update" /\ obs.active /\ obs.quiet > 0) =>
          /\ \A i \in 1 .. 2 : direction[i] = TowardZero(obs.dir0[i])
          /\ obs.quiet >= PushDir =>
                /\ direction = <<0, 0>>
                /\ hspeed = 0 /\ vspeed = 0
                /\ obs.to = obs.from
                /\ unit_pos[obs.pre_unit] = obs.from

\* C26 witness: the direction took all five ticks to come to rest
C26_Witness ==
    /\ obs.op = "take_input" /\ pc = "update" /\ obs.active
    /\ obs.quiet = PushDir
    /\ obs.dir0 # <<0, 0>>
    /\ direction = <<0, 0>>

\* ---------------------------------------------------------------------
\* The syntax highlighter: which tokens of a line are underlined
\* (event_properties.py:103-163).  A line is taken by its tokens: the
\* command name and the arguments, an argument being positional or of the
\* form key=value, with a value its validator accepts (ok) or not.
\* ---------------------------------------------------------------------

\* the most arguments of a line the highlighter is given
MaxArgs == 3

\* the commands of the catalog the lines name
LintCatalog ==
    [give |-> [keywords |-> <<"a">>, optional_keywords |-> <<"b", "c">>],
     move |-> [keywords |-> <<"a", "a2">>, optional_keywords |-> <<>>]]

\* the arguments a line may hold
LintArgs ==
    [key : {None, "b", "c"}, ok : BOOLEAN]

\* the lines: a command of the catalog or an unknown name, and its arguments
LintLines ==
    [cmd : {"give", "move", "shout"},
     args : UNION {[1 .. n -> LintArgs] : n \in 0 .. MaxArgs}]

\* the keywords of a command by position, keywords before optional_keywords
all_keywords(command) == command.keywords \o command.optional_keywords
KeywordSet(command) == {all_keywords(command)[i] : i \in 1 .. Len(all_keywords(command))}

\* EventCommand.get_index_from_keyword: the position of the keyword, from 0
get_index_from_keyword(command, keyword) ==
    (CHOOSE i \in 1 .. Len(all_keywords(command)) : all_keywords(command)[i] = keyword) - 1

\* the keyword the k-th argument of the line is assigned to: the key of
\* key=value when the command has it, else the keyword at that position;
\* None for a surplus argument
keyword_of(command, args, k) ==
    IF args[k].key # None /\ args[k].key \in KeywordSet(command) THEN args[k].key
    ELSE IF k <= Len(all_keywords(command)) THEN all_keywords(command)[k]
    ELSE None

\* event_commands.parse: the parameters of the line, keyword by keyword
\* whether the value given last is valid
parameters_of(command, args) ==
    LET given == {keyword_of(command, args, k) : k \in 1 .. Len(args)} \ {None}
        last(kw) == CHOOSE k \in 1 .. Len(args) :
                        /\ keyword_of(command, args, k) = kw
                        /\ \A j \in 1 .. Len(args) : keyword_of(command, args, j) = kw => j <= k
    IN  [kw \in given |-> args[last(kw)].ok]

\* event_commands.parse_text_to_command(line, strict=True): whether there is
\* a command, and the error location: 0 for an unknown name, the argument
\* index of the first required keyword that is missing
parse_strict(line) ==
    IF line.cmd \notin DOMAIN LintCatalog THEN [command |-> FALSE, error_loc |-> 0]
    ELSE LET command == LintCatalog[line.cmd]
             parameters == parameters_of(command, line.args)
             missing == {i \in 1 .. Len(command.keywords) :
                            command.keywords[i] \notin DOMAIN parameters}
         IN  IF missing = {} THEN [command |-> TRUE, error_loc |-> 0]
             ELSE [command |-> FALSE,
                   error_loc |-> (CHOOSE i \in missing : \A j \in missing : i <= j) - 1]

\* EventSyntaxRuleHighlighter.validate_tokens (event_properties.py:141-163):
\* 'all', or the token indexes to underline
validate_tokens(line) ==
    LET parsed == parse_strict(line)
    IN  IF parsed.command
        THEN LET command == LintCatalog[line.cmd]
                 parameters == parameters_of(command, line.args)
             IN  IF \E i \in 1 .. Len(command.keywords) :
                        command.keywords[i] \notin DOMAIN parameters
                 THEN [all |-> TRUE, idx |-> {}]
                 ELSE [all |-> FALSE,
                       idx |-> {get_index_from_keyword(command, kw) + 1 :
                                   kw \in {k \in DOMAIN parameters : ~parameters[k]}}]
        ELSE IF parsed.error_loc # 0
        THEN [all |-> FALSE, idx |-> {parsed.error_loc + 1}]
        ELSE [all |-> FALSE, idx |-> {0}]

\* event_commands.get_command_arguments: the tokens of the line, from 0
as_tokens(line) == 0 .. Len(line.args)

\* the error checking of match_line (event_properties.py:119-125): the
\* tokens underlined, or IndexError for as_tokens[idx] past the tokens
match_line(line) ==
    LET broken_args == validate_tokens(line)
    IN  IF broken_args.all
        THEN [raised |-> FALSE, broken_args |-> broken_args, lint |-> as_tokens(line)]
        ELSE IF broken_args.idx \subseteq as_tokens(line)
        THEN [raised |-> FALSE, broken_args |-> broken_args, lint |-> broken_args.idx]
        ELSE [raised |-> TRUE, broken_args |-> broken_args, lint |-> {}]

\* a line of the text box, not yet highlighted
InitLint ==
    /\ commands = <<>>
    /\ text_box \in {<<line>> : line \in LintLines}
    /\ ed_obs = [op |-> "none"]
    /\ NoRun /\ NoRoam /\ NoQuery /\ NoData

\* Highlighter.highlightBlock runs match_line on the block
highlight_line ==
    /\ ed_obs' = [op |-> "match_line", result |-> match_line(text_box[1])]
    /\ UNCHANGED <<commands, text_box, run_vars, roam_vars, query_vars, data_vars>>

NextLint == highlight_line
SpecLint == InitLint /\ [][NextLint]_vars

\* C27: match_line never indexes past the tokens of the line: every index
\* validate_tokens returns for a line is the index of a token of that line.
C27_LintIndexesAreTokens ==
    ed_obs.op = "match_line" =>
        /\ ~ed_obs.result.raised
        /\ ed_obs.result.broken_args.idx \subseteq as_tokens(text_box[1])

\* ---------------------------------------------------------------------
\* The screen flash (background.py:209-241).  fg is the Foreground object;
\* foreground is whether a surface is held (FALSE for None).  Beside the
\* object's fields fg keeps the arguments of the last flash, the draws
\* since then and whether the last draw raised ZeroDivisionError.
\* ---------------------------------------------------------------------

\* the most frames a flash is given for either of its two counts
MaxFrames == 3

\* Foreground.__init__ (background.py:210-214)
Foreground ==
    [op |-> "init", foreground |-> FALSE, foreground_frames |-> 0,
     fade_out |-> FALSE, fade_out_frames |-> 0,
     n |-> 0, m |-> 0, draws |-> 0, raised |-> FALSE]

\* Foreground.flash (background.py:216-220)
flash(F, num_frames, fade_out) ==
    [F EXCEPT !.op = "flash",
              !.foreground_frames = num_frames,
              !.foreground = TRUE,
              !.fade_out_frames = fade_out,
              !.n = num_frames, !.m = fade_out, !.draws = 0, !.raised = FALSE]

\* Foreground.draw (background.py:222-241)
draw(F) ==
    LET D == [F EXCEPT !.op = "draw", !.raised = FALSE,
                       !.draws = IF @ < 2 * MaxFrames THEN @ + 1 ELSE @]
    IN  IF ~(F.foreground \/ F.fade_out_frames # 0) THEN D
        ELSE IF F.fade_out /\ F.fade_out_frames = 0
        THEN [D EXCEPT !.raised = TRUE]
        ELSE IF F.foreground_frames - 1 > 0
        THEN [D EXCEPT !.foreground_frames = @ - 1]
        ELSE IF F.fade_out_frames # 0 /\ ~F.fade_out
        THEN [D EXCEPT !.foreground_frames = F.fade_out_frames, !.fade_out = TRUE]
        ELSE [D EXCEPT !.fade_out_frames = 0, !.foreground_frames = 0,
                       !.foreground = FALSE, !.fade_out = FALSE]

InitFlash ==
    /\ fg = Foreground
    /\ bg = [op |-> "none"]
    /\ ed_data = [current |-> 0] /\ db = [op |-> "none"]
    /\ NoRoam /\ NoEdit /\ NoRun /\ NoQuery

fg_flash ==
    /\ \E num_frames \in 1 .. MaxFrames, fade_out \in 0 .. MaxFrames :
        fg' = flash(fg, num_frames, fade_out)
    /\ UNCHANGED <<bg, ed_data, db, roam_vars, edit_vars, run_vars, query_vars>>

fg_draw ==
    /\ fg' = draw(fg)
    /\ UNCHANGED <<bg, ed_data, db, roam_vars, edit_vars, run_vars, query_vars>>

NextFlash == fg_flash \/ fg_draw
SpecFlash == InitFlash /\ [][NextFlash]_vars

\* C28: under any interleaving of flash and draw, draw never divides by a
\* fade_out_frames of zero; and n + m draws after flash(n, m) the foreground
\* is None, fade_out is False and both frame counters are 0.
C28_FlashDrawsSafelyAndEnds ==
    /\ fg.op = "draw" => ~fg.raised
    /\ fg.op \in {"flash", "draw"} /\ fg.draws >= fg.n + fg.m =>
        /\ ~fg.foreground /\ ~fg.fade_out
        /\ fg.foreground_frames = 0 /\ fg.fade_out_frames = 0

\* ---------------------------------------------------------------------
\* The fade of a PanoramaBackground (background.py:40-128).  bg is the
\* object.  transition is kept as the milliseconds added up since it was
\* last 0: the code's value is that number over fade_time * 0.5.  since is
\* engine.get_time() - last_update.  Beside the fields bg keeps the fade
\* states taken since the last fade or set call, and how many such calls
\* were made.
\* ---------------------------------------------------------------------

\* the shorter of the two frame times engine.get_delta() answers with
DeltaMs == 50
\* the shorter of the two times a fade is given
FadeMs == 100
\* the most fade and set calls of a run
MaxCalls == 2
\* the frames of the panorama
num_frames == 2
\* PanoramaBackground.__init__: speed=125
pano_speed == 125

Deltas == {DeltaMs, 2 * DeltaMs}
FadeTimes == {FadeMs, 3 * FadeMs}

\* PanoramaBackground.__init__ (background.py:40-55)
PanoramaBackground(loop) ==
    [op |-> "init", fade_state |-> "normal", fade_time |-> 0, transition |-> 0,
     counter |-> 0, since |-> 0, loop |-> loop, ret |-> FALSE,
     trail |-> <<"normal">>, calls |-> 0]

\* self.transition >= 1 (background.py:62)
transition_done(P) == 2 * P.transition >= P.fade_time

\* the fade state an elapsed transition leads to (background.py:64-71)
next_fade_state(fade_state) ==
    CASE fade_state = "to_black" -> "to_image"
      [] fade_state = "to_image" -> "normal"
      [] fade_state = "from_image" -> "from_black"
      [] fade_state = "from_black" -> "off"
      [] OTHER -> fade_state

\* an update that goes from to_black straight to normal
fade_step_skips(P, delta) ==
    IF P.fade_state \in {"normal", "off"} THEN P
    ELSE LET T == [P EXCEPT !.transition = @ + delta]
         IN  IF transition_done(T)
             THEN [T EXCEPT !.transition = 0,
                            !.fade_state = next_fade_state(next_fade_state(@))]
             ELSE T

\* the fade part of update (background.py:58-71)
fade_step(P, delta) ==
    IF P.fade_state \in {"normal", "off"} THEN P
    ELSE LET T == [P EXCEPT !.transition = @ + delta]
         IN  IF transition_done(T)
             THEN [T EXCEPT !.transition = 0,
                            !.fade_state = next_fade_state(@)]
             ELSE T

\* the procession of frames of update (background.py:73-81)
frame_step(P, delta) ==
    IF P.since + delta > pano_speed
    THEN LET c == IF P.counter + 1 >= num_frames THEN 0 ELSE P.counter + 1
         IN  [P EXCEPT !.counter = c, !.since = 0, !.ret = (c = 0 /\ ~P.loop)]
    ELSE [P EXCEPT !.since = @ + delta, !.ret = FALSE]

\* PanoramaBackground.update (background.py:57-81)
panorama_update(P, delta) ==
    LET F == frame_step(fade_step(P, delta), delta)
    IN  [F EXCEPT !.op = "update",
                  !.trail = IF F.fade_state # P.fade_state
                            THEN Append(@, F.fade_state) ELSE @]

\* PanoramaBackground.set_off (background.py:112-114)
set_off(P) ==
    [P EXCEPT !.op = "set_off", !.fade_state = "off", !.transition = 0,
              !.trail = <<"off">>, !.calls = @ + 1]

\* PanoramaBackground.set_normal (background.py:116-118)
set_normal(P) ==
    [P EXCEPT !.op = "set_normal", !.fade_state = "normal", !.transition = 0,
              !.trail = <<"normal">>, !.calls = @ + 1]

\* PanoramaBackground.fade_in (background.py:120-123)
fade_in(P, time_ms) ==
    [P EXCEPT !.op = "fade_in", !.fade_state = "to_black", !.fade_time = time_ms,
              !.transition = 0, !.trail = <<"to_black">>, !.calls = @ + 1]

\* PanoramaBackground.fade_out (background.py:125-128)
fade_out(P, time_ms) ==
    [P EXCEPT !.op = "fade_out", !.fade_state = "from_image", !.fade_time = time_ms,
              !.transition = 0, !.trail = <<"from_image">>, !.calls = @ + 1]

InitFade ==
    /\ bg \in {PanoramaBackground(loop) : loop \in BOOLEAN}
    /\ fg = [op |-> "none"]
    /\ ed_data = [current |-> 0] /\ db = [op |-> "none"]
    /\ NoRoam /\ NoEdit /\ NoRun /\ NoQuery

FadeRest == <<fg, ed_data, db, roam_vars, edit_vars, run_vars, query_vars>>

bg_update ==
    /\ \E delta \in Deltas : bg' = panorama_update(bg, delta)
    /\ UNCHANGED FadeRest

bg_fade_in ==
    /\ bg.calls < MaxCalls
    /\ \E time_ms \in FadeTimes : bg' = fade_in(bg, time_ms)
    /\ UNCHANGED FadeRest

bg_fade_out ==
    /\ bg.calls < MaxCalls
    /\ \E time_ms \in FadeTimes : bg' = fade_out(bg, time_ms)
    /\ UNCHANGED FadeRest

bg_set_off ==
    /\ bg.calls < MaxCalls
    /\ bg' = set_off(bg)
    /\ UNCHANGED FadeRest

bg_set_normal ==
    /\ bg.calls < MaxCalls
    /\ bg' = set_normal(bg)
    /\ UNCHANGED FadeRest

NextFade == bg_update \/ bg_fade_in \/ bg_fade_out \/ bg_set_off \/ bg_set_normal

\* the background is drawn, and so updated, every frame
SpecFade == InitFade /\ [][NextFade]_vars /\ WF_vars(bg_update)

IsPrefix(s, t) == Len(s) <= Len(t) /\ \A i \in 1 .. Len(s) : s[i] = t[i]

\* the fade states since the last fade or set call are in the one order
FadeInOrder ==
    /\ \/ bg.trail \in {<<"normal">>, <<"off">>}
       \/ IsPrefix(bg.trail, <<"to_black", "to_image", "normal">>)
       \/ IsPrefix(bg.trail, <<"from_image", "from_black", "off">>)
    /\ bg.trail # <<>> /\ bg.fade_state = bg.trail[Len(bg.trail)]
    /\ bg.fade_state \in {"normal", "off"} \/ ~transition_done(bg)
    /\ bg.op # "update" /\ bg.op # "init" => bg.transition = 0

\* C29: after fade_in(t) or fade_out(t), t > 0, updates take fade_state
\* through to_black, to_image, normal or through from_image, from_black,
\* off, in no other order, and it then stays; transition is 0 at every
\* state change and below 1 after every update.
C29_FadeIsOneWay ==
    /\ [](FadeInOrder)
    /\ [][bg.fade_state' # bg.fade_state => bg.transition' = 0]_vars
    /\ [][bg.fade_state \in {"normal", "off"} /\ bg.op' = "update"
            => bg.fade_state' = bg.fade_state]_vars
    /\ []((bg.trail[1] = "to_black") => <>(bg.trail[1] # "to_black" \/ bg.fade_state = "normal"))
    /\ []((bg.trail[1] = "from_image") => <>(bg.trail[1] # "from_image" \/ bg.fade_state = "off"))

\* a fade in has run its three states
C29_Witness ==
    bg.op = "update" /\ bg.trail = <<"to_black", "to_image", "normal">>
        /\ bg.calls = MaxCalls

\* ---------------------------------------------------------------------
\* The components of a restored item, nid by nid (items.py:58-68)
\* ---------------------------------------------------------------------

\* C30: an item restored by ItemPrefab.restore holds no component nid twice,
\* and restore synthesizes a paired component the data lacks at most once,
\* also when several components of the data name it.
C30_PairedSynthesizedOnce ==
    db.op = "restore" =>
        /\ \A i, j \in 1 .. Len(db.components) :
               db.components[i].nid = db.components[j].nid => i = j
        /\ \A paired_nid \in Comps : db.made[paired_nid] <= 1

====
